---- MODULE Spec2Model ----
(***************************************************************************)
(* Tiny-DataStructure-Lib: the ordered binary search tree (src/ds_bst.c)   *)
(* and the generic binary tree's traversals (src/ds_btree.c) over the      *)
(* ring-buffer deque (src/ds_deque.c) used as a stack (src/ds_stack.c).    *)
(*                                                                         *)
(* Memory is a heap of node blocks indexed by address; NULL is address 0.  *)
(* A payload is an opaque pointer p; the tests' payloads are int objects   *)
(* (mk_int), so the comparator reads the int KeyOf(p) stored in p.         *)
(***************************************************************************)
EXTENDS Integers, Sequences, FiniteSets, TLC

\* ------------------------------------------------------------------ bounds
\* Number of distinct int keys the caller uses.
NumKeys == 5

NULL == 0

Keys == 1..NumKeys
\* Payload objects: one per key, and a second object holding key 1 (the "dup"
\* of test_bst_insert_duplicate_key).
MaxPayload == NumKeys + 1
Payloads == 1..MaxPayload
\* Probe objects for search and remove: one per key.
Probes == 1..NumKeys
\* Node blocks the allocator can hand out.
Nodes == 1..MaxPayload

\* mk_int(v): the int stored in payload object p.
KeyOf(p) == ((p - 1) % NumKeys) + 1

\* tests/test_bst.c int_compare
int_compare(a, b) ==
  IF KeyOf(a) < KeyOf(b) THEN -1
  ELSE IF KeyOf(a) > KeyOf(b) THEN 1
  ELSE 0

\* ------------------------------------------------------------- BST state
VARIABLES
  root,     \* bst->root
  size,     \* bst->size
  node,     \* heap: node address -> [data, left, right]
  alloc,    \* addresses of live (malloc'ed, not yet freed) node blocks
  present,  \* the test's reference: key -> payload inserted and not removed since (NULL: absent)
  op,       \* the last call
  onNull,   \* whether it was made on a NULL bst pointer
  arg,      \* its data / key argument
  hasFree,  \* whether it was given a destructor
  ret,      \* its status ("-" for a call that returns a payload)
  out,      \* its returned payload (search, min, max)
  freed,    \* payloads the destructor was invoked on during the call, in order
  rmcase    \* which structural case a successful remove took

bstVars == <<root, size, node, alloc, present, op, onNull, arg, hasFree, ret, out, freed, rmcase>>

\* ---------------------------------------------------- binary tree state
VARIABLES
  tree,     \* the ds_btree_t object: [root, size]
  bnode,    \* heap: node address -> [data, left, right]
  balloc,   \* addresses of live ds_btree_node_t blocks
  held,     \* the standalone unit the caller holds (NULL: none)
  tret,     \* what the last binary tree call returned
  trav,     \* the traversal that ran last ("none": the tree changed since)
  visited,  \* the payloads its visitor received, in order
  hgt,      \* what ds_btree_height returned, when it ran last
  tfn,      \* the last call was given a destructor
  events,   \* what the last clear or destroy did, in order: [ev, x] with
            \* "dtor" (free_func on payload x), "free" (free of node x),
            \* "push" (node x pushed on stack_store) and "free_tree"
            \* (free of the tree object, x is NULL)
  sub,      \* a second ds_btree_t object, the source of a graft: [root, size]
  subWas    \* sub as the last ds_btree_attach_tree_left/right found it

travVars ==
  <<tree, bnode, balloc, held, tret, trav, visited, hgt, tfn, events, sub, subWas>>

\* ------------------------------------------------------- container state
VARIABLES
  deque,    \* the ds_deque_t of a deque, a stack or a queue: a pointer to
            \* [items, capacity, size, head, tail]
  vec,      \* the ds_vector_t: a pointer to [items, capacity, size]
  heap,     \* the ds_heap_t: a pointer to [items, capacity, size, compare]
  list,     \* the ds_list_t with its nodes: [head, tail, size, node, alloc]
  liter,    \* the iterator the last list call returned (NULL: none)
  cref,     \* the reference: the sequence the container stands for
  cop,      \* the last container call
  cst,      \* the status it returned ("-": the call returns no status)
  cret      \* the element it returned or handed to the destructor (NULL: none)

contVars == <<deque, vec, heap, list, liter, cref, cop, cst, cret>>

\* ------------------------------------------- a call of the tree, in steps
VARIABLES
  run       \* the call of the binary tree that is followed pass by pass: a
            \* pointer to [fn, phase, passes, free_func, st] with the name
            \* of the function, where it stands ("loop", "release" for the
            \* second loop of ds_btree_destroy, "done" once it has
            \* returned), the passes of its loops it has made, the
            \* destructor flag and its locals st (no pointer: no such call)

stepVars == <<run>>

vars == <<bstVars, travVars, contVars, stepVars>>

\* The contents of a block that is not live.
Poison == [data |-> NULL, left |-> NULL, right |-> NULL]

\* The bst object with the heap it points into.
Bst == [root |-> root, size |-> size, node |-> node, alloc |-> alloc]

\* ----------------------------------------------------- pointers to slots
\* ds_bst_node_t **link: the address of bst->root, of n->left or of n->right.
RootLink == [slot |-> "root", n |-> NULL]
LeftOf(n) == [slot |-> "left", n |-> n]
RightOf(n) == [slot |-> "right", n |-> n]

\* *link
Load(s, link) ==
  IF link.slot = "root" THEN s.root
  ELSE IF link.slot = "left" THEN s.node[link.n].left
  ELSE s.node[link.n].right

\* *link = v
Store(s, link, v) ==
  IF link.slot = "root" THEN [s EXCEPT !.root = v]
  ELSE IF link.slot = "left" THEN [s EXCEPT !.node[link.n].left = v]
  ELSE [s EXCEPT !.node[link.n].right = v]

\* malloc(sizeof(ds_bst_node_t)): some block that is not live. The allocator
\* prefers the block numbered like the payload and else takes the lowest free one.
Malloc(s, data) ==
  IF data \in Nodes /\ data \notin s.alloc THEN data
  ELSE IF Nodes \ s.alloc = {} THEN NULL
  ELSE CHOOSE n \in Nodes \ s.alloc : \A m \in Nodes \ s.alloc : n <= m

\* free(n)
Free(s, n) == [s EXCEPT !.alloc = @ \ {n}, !.node[n] = Poison]

\* ds_bst_node_create: [p: the new node or NULL, s: the heap after]
ds_bst_node_create(s, data, mem) ==
  IF data = NULL THEN [p |-> NULL, s |-> s]
  ELSE LET n == Malloc(s, data) IN
    IF ~mem \/ n = NULL THEN [p |-> NULL, s |-> s]
    ELSE [p |-> n,
          s |-> [s EXCEPT !.alloc = @ \cup {n},
                          !.node[n] = [data |-> data, left |-> NULL, right |-> NULL]]]

\* ------------------------------------------------------------ ds_bst_insert
\* Mutant: the descent of insert takes the wrong side.
insert_next_swapped(cmp, curr) == IF cmp < 0 THEN RightOf(curr) ELSE LeftOf(curr)

\* The slot the descent moves to after comparing data with curr's payload.
insert_next(cmp, curr) == IF cmp < 0 THEN LeftOf(curr) ELSE RightOf(curr)

\* Mutant: a payload comparing equal is sent to the right instead of rejected.
RECURSIVE insert_locate_dup(_, _, _)
insert_locate_dup(s, link, data) ==
  IF Load(s, link) = NULL THEN link
  ELSE LET curr == Load(s, link)
           cmp == int_compare(data, s.node[curr].data)
       IN insert_locate_dup(s, insert_next(cmp, curr), data)

\* while (*link): the empty slot where the descent ends, or slot "exist" when a
\* node compares equal.
RECURSIVE insert_locate(_, _, _)
insert_locate(s, link, data) ==
  IF Load(s, link) = NULL THEN link
  ELSE LET curr == Load(s, link)
           cmp == int_compare(data, s.node[curr].data)
       IN IF cmp = 0 THEN [slot |-> "exist", n |-> curr]
          ELSE insert_locate(s, insert_next(cmp, curr), data)

\* Mutant: the count is incremented before the allocation is known to succeed.
insert_attach_count_first(s, link, data, mem) ==
  LET c == ds_bst_node_create(s, data, mem) IN
  IF c.p = NULL THEN [ret |-> "DS_ERR_MEM", s |-> [s EXCEPT !.size = @ + 1]]
  ELSE [ret |-> "DS_OK", s |-> [Store(c.s, link, c.p) EXCEPT !.size = @ + 1]]

\* The new node is created and stored into the empty slot link points to.
insert_attach(s, link, data, mem) ==
  LET c == ds_bst_node_create(s, data, mem) IN
  IF c.p = NULL THEN [ret |-> "DS_ERR_MEM", s |-> s]
  ELSE [ret |-> "DS_OK", s |-> [Store(c.s, link, c.p) EXCEPT !.size = @ + 1]]

\* b: the bst pointer is not NULL; mem: malloc succeeds.
ds_bst_insert(b, s, data, mem) ==
  IF ~b THEN [ret |-> "DS_ERR_NULL", s |-> s]
  ELSE IF data = NULL THEN [ret |-> "DS_ERR_ARG", s |-> s]
  ELSE IF s.root = NULL THEN
    LET c == ds_bst_node_create(s, data, mem) IN
    IF c.p = NULL THEN [ret |-> "DS_ERR_MEM", s |-> s]
    ELSE [ret |-> "DS_OK", s |-> [c.s EXCEPT !.root = c.p, !.size = @ + 1]]
  ELSE
    LET link == insert_locate(s, RootLink, data) IN
    IF link.slot = "exist" THEN [ret |-> "DS_ERR_EXIST", s |-> s]
    ELSE insert_attach(s, link, data, mem)

\* ------------------------------------------------------------ ds_bst_search
\* Mutant: the descent of search takes the wrong side.
search_next_swapped(cmp, curr) == IF cmp < 0 THEN curr.right ELSE curr.left

\* The child (of the node record curr) the descent moves to.
search_next(cmp, curr) == IF cmp < 0 THEN curr.left ELSE curr.right

RECURSIVE search_loop(_, _, _)
search_loop(s, curr, key) ==
  IF curr = NULL THEN NULL
  ELSE LET cmp == int_compare(key, s.node[curr].data) IN
    IF cmp = 0 THEN s.node[curr].data
    ELSE search_loop(s, search_next(cmp, s.node[curr]), key)

ds_bst_search(b, s, key) ==
  IF ~b \/ s.root = NULL \/ key = NULL THEN NULL
  ELSE search_loop(s, s.root, key)

\* ------------------------------------------------------------ ds_bst_remove
remove_next(cmp, curr) == IF cmp < 0 THEN LeftOf(curr) ELSE RightOf(curr)

\* while (*link): the slot holding the node that compares equal to key, or the
\* empty slot where the descent ends.
RECURSIVE remove_locate(_, _, _)
remove_locate(s, link, key) ==
  IF Load(s, link) = NULL THEN link
  ELSE LET curr == Load(s, link)
           cmp == int_compare(key, s.node[curr].data)
       IN IF cmp = 0 THEN link
          ELSE remove_locate(s, remove_next(cmp, curr), key)

\* while (pred->right): the slot holding the rightmost node below pred_link.
RECURSIVE pred_locate(_, _)
pred_locate(s, pred_link) ==
  LET pred == Load(s, pred_link) IN
  IF s.node[pred].right # NULL THEN pred_locate(s, RightOf(pred))
  ELSE pred_link

\* Mutant: the predecessor is unlinked as if it were a leaf; its left child is
\* not put in its place.
remove_two_children_drop_left(s, link, curr) ==
  LET pred_link == pred_locate(s, LeftOf(curr))
      pred == Load(s, pred_link)
      s1 == Store(s, pred_link, NULL)
      s2 == Store(s1, link, pred)
      s3 == [s2 EXCEPT !.node[pred].left = s2.node[curr].left]
      s4 == [s3 EXCEPT !.node[pred].right = s3.node[curr].right]
  IN s4

\* Mutant: the predecessor is not taken out of its old slot.
remove_two_children_no_splice(s, link, curr) ==
  LET pred_link == pred_locate(s, LeftOf(curr))
      pred == Load(s, pred_link)
      s2 == Store(s, link, pred)
      s3 == [s2 EXCEPT !.node[pred].left = s2.node[curr].left]
      s4 == [s3 EXCEPT !.node[pred].right = s3.node[curr].right]
  IN s4

\* Case 4: curr has both subtrees. The four stores happen in the code's order,
\* each reading the heap the previous ones left.
remove_two_children(s, link, curr) ==
  LET pred_link == pred_locate(s, LeftOf(curr))
      pred == Load(s, pred_link)
      s1 == Store(s, pred_link, s.node[pred].left)
      s2 == Store(s1, link, pred)
      s3 == [s2 EXCEPT !.node[pred].left = s2.node[curr].left]
      s4 == [s3 EXCEPT !.node[pred].right = s3.node[curr].right]
  IN s4

\* Mutant: a node with a right child only is unlinked as if it were a leaf.
remove_unlink_drop_right(s, link, curr) ==
  LET c == s.node[curr] IN
  IF c.left = NULL /\ c.right = NULL THEN Store(s, link, NULL)
  ELSE IF c.left # NULL /\ c.right = NULL THEN Store(s, link, c.left)
  ELSE IF c.left = NULL /\ c.right # NULL THEN Store(s, link, NULL)
  ELSE remove_two_children(s, link, curr)

\* Cases 1 to 4: curr is taken out of the slot link points to.
remove_unlink(s, link, curr) ==
  LET c == s.node[curr] IN
  IF c.left = NULL /\ c.right = NULL THEN Store(s, link, NULL)
  ELSE IF c.left # NULL /\ c.right = NULL THEN Store(s, link, c.left)
  ELSE IF c.left = NULL /\ c.right # NULL THEN Store(s, link, c.right)
  ELSE remove_two_children(s, link, curr)

\* The case names, for the record of the call.
RemoveCase(s, curr) ==
  LET c == s.node[curr] IN
  IF c.left = NULL /\ c.right = NULL THEN "leaf"
  ELSE IF c.left # NULL /\ c.right = NULL THEN "left"
  ELSE IF c.left = NULL /\ c.right # NULL THEN "right"
  ELSE LET pred == Load(s, pred_locate(s, LeftOf(curr))) IN
    IF pred = c.left
    THEN (IF s.node[pred].left = NULL THEN "two_direct" ELSE "two_direct_l")
    ELSE (IF s.node[pred].left = NULL THEN "two_deep" ELSE "two_deep_l")

TwoChildrenCases == {"two_direct", "two_direct_l", "two_deep", "two_deep_l"}

\* Mutant: the destructor is invoked after the node is freed, on what the
\* freed block then holds.
remove_finish_dtor_after_free(s, curr, fn) ==
  [freed |-> IF fn THEN <<Free(s, curr).node[curr].data>> ELSE <<>>,
   s |-> [Free(s, curr) EXCEPT !.size = @ - 1]]

\* Mutant: the count is not decremented.
remove_finish_nodec(s, curr, fn) ==
  [freed |-> IF fn THEN <<s.node[curr].data>> ELSE <<>>,
   s |-> Free(s, curr)]

\* if (free_func) free_func(curr->data); free(curr); bst->size--;
remove_finish(s, curr, fn) ==
  [freed |-> IF fn THEN <<s.node[curr].data>> ELSE <<>>,
   s |-> [Free(s, curr) EXCEPT !.size = @ - 1]]

NoRemove(status, s) == [ret |-> status, s |-> s, freed |-> <<>>, rmcase |-> "none"]

\* Mutant: the key is validated before the tree is found empty.
remove_precheck_arg_first(b, s, key) ==
  IF ~b THEN "DS_ERR_NULL"
  ELSE IF key = NULL THEN "DS_ERR_ARG"
  ELSE IF s.root = NULL THEN "DS_ERR_NOT_FOUND"
  ELSE "go"

\* The checks of the arguments, in the code's order; "go" when all pass.
remove_precheck(b, s, key) ==
  IF ~b THEN "DS_ERR_NULL"
  ELSE IF s.root = NULL THEN "DS_ERR_NOT_FOUND"
  ELSE IF key = NULL THEN "DS_ERR_ARG"
  ELSE "go"

\* b: the bst pointer is not NULL; fn: a destructor is given.
ds_bst_remove(b, s, key, fn) ==
  IF remove_precheck(b, s, key) # "go" THEN NoRemove(remove_precheck(b, s, key), s)
  ELSE
    LET link == remove_locate(s, RootLink, key)
        curr == Load(s, link)
    IN IF curr = NULL THEN NoRemove("DS_ERR_NOT_FOUND", s)
       ELSE LET f == remove_finish(remove_unlink(s, link, curr), curr, fn) IN
         [ret |-> "DS_OK", s |-> f.s, freed |-> f.freed, rmcase |-> RemoveCase(s, curr)]

\* ------------------------------------------------- ds_bst_min, ds_bst_max
\* Mutant: the descent of min follows the right links.
RECURSIVE min_loop_right(_, _)
min_loop_right(s, curr) ==
  IF s.node[curr].right # NULL THEN min_loop_right(s, s.node[curr].right) ELSE curr

\* while (curr->left): the leftmost node below curr.
RECURSIVE min_loop(_, _)
min_loop(s, curr) ==
  IF s.node[curr].left # NULL THEN min_loop(s, s.node[curr].left) ELSE curr

ds_bst_min(b, s) ==
  IF ~b \/ s.root = NULL THEN NULL ELSE s.node[min_loop(s, s.root)].data

\* while (curr->right): the rightmost node below curr.
RECURSIVE max_loop(_, _)
max_loop(s, curr) ==
  IF s.node[curr].right # NULL THEN max_loop(s, s.node[curr].right) ELSE curr

ds_bst_max(b, s) ==
  IF ~b \/ s.root = NULL THEN NULL ELSE s.node[max_loop(s, s.root)].data

\* ------------------------------------------------ ds_bst_traverse_inorder
\* inorder_node: the payloads in the order the visitor receives them.
RECURSIVE bst_inorder_node(_, _)
bst_inorder_node(s, n) ==
  IF n = NULL THEN <<>>
  ELSE bst_inorder_node(s, s.node[n].left) \o <<s.node[n].data>>
       \o bst_inorder_node(s, s.node[n].right)

ds_bst_traverse_inorder(s) == bst_inorder_node(s, s.root)

\* ds_bst_size
ds_bst_size(b, s) == IF ~b THEN 0 ELSE s.size

\* ------------------------------------------------------------ BST actions
\* ds_bst_create(int_compare): the empty tree; no call made yet.
InitBst ==
  /\ root = NULL
  /\ size = 0
  /\ node = [n \in Nodes |-> Poison]
  /\ alloc = {}
  /\ present = [k \in Keys |-> NULL]
  /\ op = "create"
  /\ onNull = FALSE
  /\ arg = NULL
  /\ hasFree = FALSE
  /\ ret = "DS_OK"
  /\ out = NULL
  /\ freed = <<>>
  /\ rmcase = "none"

SetBst(s) ==
  /\ root' = s.root
  /\ size' = s.size
  /\ node' = s.node
  /\ alloc' = s.alloc

\* The caller inserts the payload object data (or NULL), on its tree or on NULL.
Insert(b, data, mem) ==
  LET r == ds_bst_insert(b, Bst, data, mem) IN
  /\ SetBst(r.s)
  /\ present' = IF r.ret = "DS_OK" THEN [present EXCEPT ![KeyOf(data)] = data] ELSE present
  /\ UNCHANGED <<travVars, contVars, stepVars>>
  /\ op' = "insert"
  /\ onNull' = ~b
  /\ arg' = data
  /\ hasFree' = FALSE
  /\ ret' = r.ret
  /\ out' = NULL
  /\ freed' = <<>>
  /\ rmcase' = "none"

\* The caller removes by a probe object key (or NULL), with or without a destructor.
Remove(b, key, fn) ==
  LET r == ds_bst_remove(b, Bst, key, fn) IN
  /\ SetBst(r.s)
  /\ present' = IF r.ret = "DS_OK" THEN [present EXCEPT ![KeyOf(key)] = NULL] ELSE present
  /\ UNCHANGED <<travVars, contVars, stepVars>>
  /\ op' = "remove"
  /\ onNull' = ~b
  /\ arg' = key
  /\ hasFree' = fn
  /\ ret' = r.ret
  /\ out' = NULL
  /\ freed' = r.freed
  /\ rmcase' = r.rmcase

Search(b, key) ==
  /\ UNCHANGED <<travVars, contVars, stepVars>>
  /\ op' = "search"
  /\ onNull' = ~b
  /\ arg' = key
  /\ hasFree' = FALSE
  /\ ret' = "-"
  /\ out' = ds_bst_search(b, Bst, key)
  /\ freed' = <<>>
  /\ rmcase' = "none"
  /\ UNCHANGED <<root, size, node, alloc, present>>

Min(b) ==
  /\ UNCHANGED <<travVars, contVars, stepVars>>
  /\ op' = "min"
  /\ onNull' = ~b
  /\ arg' = NULL
  /\ hasFree' = FALSE
  /\ ret' = "-"
  /\ out' = ds_bst_min(b, Bst)
  /\ freed' = <<>>
  /\ rmcase' = "none"
  /\ UNCHANGED <<root, size, node, alloc, present>>

Max(b) ==
  /\ UNCHANGED <<travVars, contVars, stepVars>>
  /\ op' = "max"
  /\ onNull' = ~b
  /\ arg' = NULL
  /\ hasFree' = FALSE
  /\ ret' = "-"
  /\ out' = ds_bst_max(b, Bst)
  /\ freed' = <<>>
  /\ rmcase' = "none"
  /\ UNCHANGED <<root, size, node, alloc, present>>

\* ------------------------------------------------------------ size_t, malloc
\* size_t is an unsigned integer of SizeBits bits, a pointer has the same
\* width, and a byte has 8 bits.
SizeBits == 8
SizeMod == 2 ^ SizeBits
SIZE_MAX == SizeMod - 1
PTRDIFF_MAX == (SizeMod \div 2) - 1
PtrBytes == SizeBits \div 8

size_inc(n) == (n + 1) % SizeMod
size_dec(n) == (n + SIZE_MAX) % SizeMod

\* malloc(sizeof(void *) * capacity): the byte count is computed in size_t, and
\* no object is larger than PTRDIFF_MAX bytes. The heap has room for every
\* request below that.
malloc_items(capacity) ==
  LET bytes == (PtrBytes * capacity) % SizeMod IN bytes <= PTRDIFF_MAX

\* A pointer to a helper object is the empty tuple (NULL) or holds the object.
NullRef == <<>>
Ref(x) == <<x>>

\* -------------------------------------------------------------------- deque
DS_DEQUE_DEFAULT_CAPACITY == 16
DS_DEQUE_GROWTH_FACTOR == 2

next_idx(i, cap) == (i + 1) % cap
prev_idx(i, cap) == (i + cap - 1) % cap

\* The array of a fresh allocation; a slot is written before it is read.
NewItems(capacity) == [i \in 0..(capacity - 1) |-> NULL]

\* Mutant: the elements are copied from the start of the old array, not from
\* its head.
RECURSIVE grow_copy_from_zero(_, _, _, _)
grow_copy_from_zero(d, new_items, i, h) ==
  IF i < d.size
  THEN grow_copy_from_zero(d, [new_items EXCEPT ![i] = d.items[i]], i + 1, h)
  ELSE new_items

\* Mutant: the elements are copied in the reverse order.
RECURSIVE grow_copy_reversed(_, _, _, _)
grow_copy_reversed(d, new_items, i, h) ==
  IF i < d.size
  THEN grow_copy_reversed(d, [new_items EXCEPT ![d.size - 1 - i] = d.items[h]],
                          i + 1, next_idx(h, d.capacity))
  ELSE new_items

RECURSIVE grow_copy(_, _, _, _)
grow_copy(d, new_items, i, h) ==
  IF i < d.size
  THEN grow_copy(d, [new_items EXCEPT ![i] = d.items[h]], i + 1,
                 next_idx(h, d.capacity))
  ELSE new_items

\* Mutant: the head keeps its old index in the new array.
ds_deque_grow_keeps_head(d) ==
  LET new_capacity == (d.capacity * DS_DEQUE_GROWTH_FACTOR) % SizeMod IN
  IF new_capacity < d.capacity THEN [ret |-> "DS_ERR_MEM", d |-> d]
  ELSE IF ~malloc_items(new_capacity) THEN [ret |-> "DS_ERR_MEM", d |-> d]
  ELSE [ret |-> "DS_OK",
        d |-> [items |-> grow_copy(d, NewItems(new_capacity), 0, d.head),
               capacity |-> new_capacity,
               size |-> d.size,
               head |-> d.head,
               tail |-> d.size]]

\* Returns [ret, d].
ds_deque_grow(d) ==
  LET new_capacity == (d.capacity * DS_DEQUE_GROWTH_FACTOR) % SizeMod IN
  IF new_capacity < d.capacity THEN [ret |-> "DS_ERR_MEM", d |-> d]
  ELSE IF ~malloc_items(new_capacity) THEN [ret |-> "DS_ERR_MEM", d |-> d]
  ELSE [ret |-> "DS_OK",
        d |-> [items |-> grow_copy(d, NewItems(new_capacity), 0, d.head),
               capacity |-> new_capacity,
               size |-> d.size,
               head |-> 0,
               tail |-> d.size]]

\* Returns a pointer to the new deque, or NullRef.
ds_deque_create(capacity_hint) ==
  LET capacity == IF capacity_hint = 0 THEN DS_DEQUE_DEFAULT_CAPACITY
                  ELSE capacity_hint
  IN IF ~malloc_items(capacity) THEN NullRef
     ELSE Ref([items |-> NewItems(capacity), capacity |-> capacity,
               size |-> 0, head |-> 0, tail |-> 0])

ds_deque_is_empty(dq) == IF dq = NullRef THEN TRUE ELSE dq[1].size = 0

\* Returns [ret, dq].
ds_deque_push_back(dq, element) ==
  IF dq = NullRef THEN [ret |-> "DS_ERR_NULL", dq |-> dq]
  ELSE IF element = NULL THEN [ret |-> "DS_ERR_ARG", dq |-> dq]
  ELSE
    LET g == IF dq[1].size = dq[1].capacity THEN ds_deque_grow(dq[1])
             ELSE [ret |-> "DS_OK", d |-> dq[1]]
        d == g.d
    IN IF g.ret # "DS_OK" THEN [ret |-> g.ret, dq |-> dq]
       ELSE [ret |-> "DS_OK",
             dq |-> Ref([d EXCEPT !.items[d.tail] = element,
                                  !.tail = next_idx(d.tail, d.capacity),
                                  !.size = size_inc(d.size)])]

\* Returns [ret, dq].
ds_deque_pop_back(dq) ==
  IF dq = NullRef THEN [ret |-> NULL, dq |-> dq]
  ELSE IF dq[1].size = 0 THEN [ret |-> NULL, dq |-> dq]
  ELSE
    LET d == dq[1]
        tail == prev_idx(d.tail, d.capacity)
    IN [ret |-> d.items[tail],
        dq |-> Ref([d EXCEPT !.tail = tail, !.size = size_dec(d.size)])]

\* Returns [ret, dq].
ds_deque_pop_front(dq) ==
  IF dq = NullRef THEN [ret |-> NULL, dq |-> dq]
  ELSE IF dq[1].size = 0 THEN [ret |-> NULL, dq |-> dq]
  ELSE
    LET d == dq[1]
    IN [ret |-> d.items[d.head],
        dq |-> Ref([d EXCEPT !.head = next_idx(d.head, d.capacity),
                             !.size = size_dec(d.size)])]

\* Returns [ret, dq].
ds_deque_push_front(dq, element) ==
  IF dq = NullRef THEN [ret |-> "DS_ERR_NULL", dq |-> dq]
  ELSE IF element = NULL THEN [ret |-> "DS_ERR_ARG", dq |-> dq]
  ELSE
    LET g == IF dq[1].size = dq[1].capacity THEN ds_deque_grow(dq[1])
             ELSE [ret |-> "DS_OK", d |-> dq[1]]
        d == g.d
        head == prev_idx(d.head, d.capacity)
    IN IF g.ret # "DS_OK" THEN [ret |-> g.ret, dq |-> dq]
       ELSE [ret |-> "DS_OK",
             dq |-> Ref([d EXCEPT !.head = head,
                                  !.items[head] = element,
                                  !.size = size_inc(d.size)])]

ds_deque_size(dq) == IF dq = NullRef THEN 0 ELSE dq[1].size

ds_deque_front(dq) ==
  IF dq = NullRef THEN NULL
  ELSE IF dq[1].size = 0 THEN NULL
  ELSE dq[1].items[dq[1].head]

ds_deque_back(dq) ==
  IF dq = NullRef THEN NULL
  ELSE IF dq[1].size = 0 THEN NULL
  ELSE dq[1].items[prev_idx(dq[1].tail, dq[1].capacity)]

\* -------------------------------------------------------------------- stack
\* A ds_stack_t holds nothing but its deque: the pointer to the stack is
\* modelled by the pointer to the deque.
ds_stack_create(capacity_hint) == ds_deque_create(capacity_hint)

ds_stack_is_empty(stack) ==
  IF stack = NullRef THEN TRUE ELSE ds_deque_is_empty(stack)

\* Returns [ret, stack].
ds_stack_push(stack, element) ==
  IF stack = NullRef THEN [ret |-> "DS_ERR_NULL", stack |-> stack]
  ELSE IF element = NULL THEN [ret |-> "DS_ERR_ARG", stack |-> stack]
  ELSE LET r == ds_deque_push_back(stack, element)
       IN [ret |-> r.ret, stack |-> r.dq]

ds_stack_size(stack) == IF stack = NullRef THEN 0 ELSE ds_deque_size(stack)

\* Mutant: the stack gives back its oldest element.
ds_stack_pop_oldest(stack) ==
  IF stack = NullRef THEN [ret |-> NULL, stack |-> stack]
  ELSE LET r == ds_deque_pop_front(stack) IN [ret |-> r.ret, stack |-> r.dq]

\* Returns [ret, stack].
ds_stack_pop(stack) ==
  IF stack = NullRef THEN [ret |-> NULL, stack |-> stack]
  ELSE LET r == ds_deque_pop_back(stack) IN [ret |-> r.ret, stack |-> r.dq]

ds_stack_top(stack) ==
  IF stack = NullRef THEN NULL ELSE ds_deque_back(stack)

\* -------------------------------------------------------------------- queue
\* A ds_queue_t holds nothing but its deque, like a ds_stack_t.
ds_queue_create(capacity_hint) == ds_deque_create(capacity_hint)

ds_queue_is_empty(queue) ==
  IF queue = NullRef THEN TRUE ELSE ds_deque_is_empty(queue)

\* Returns [ret, queue].
ds_queue_push(queue, element) ==
  IF queue = NullRef THEN [ret |-> "DS_ERR_NULL", queue |-> queue]
  ELSE IF element = NULL THEN [ret |-> "DS_ERR_ARG", queue |-> queue]
  ELSE LET r == ds_deque_push_back(queue, element)
       IN [ret |-> r.ret, queue |-> r.dq]

ds_queue_front(queue) ==
  IF queue = NullRef THEN NULL ELSE ds_deque_front(queue)

ds_queue_size(queue) == IF queue = NullRef THEN 0 ELSE ds_deque_size(queue)

\* Mutant: the queue gives back its newest element.
ds_queue_pop_newest(queue) ==
  IF queue = NullRef THEN [ret |-> NULL, queue |-> queue]
  ELSE LET r == ds_deque_pop_back(queue) IN [ret |-> r.ret, queue |-> r.dq]

\* Returns [ret, queue].
ds_queue_pop(queue) ==
  IF queue = NullRef THEN [ret |-> NULL, queue |-> queue]
  ELSE LET r == ds_deque_pop_front(queue) IN [ret |-> r.ret, queue |-> r.dq]

\* -------------------------------------------------------------- binary tree
\* The most nodes a caller that also detaches has allocated at a time, and
\* the most nodes a caller that only builds has: the size of the heap.
MaxTreeNodes == 4
MaxBuildNodes == 6
MaxGraftNodes == 4
BNodes == 1..MaxBuildNodes

\* The tree with its heap, as the operations below read and return it.
Btree == [root |-> tree.root, size |-> tree.size, node |-> bnode, alloc |-> balloc]

\* malloc(sizeof(ds_btree_node_t)): the lowest block that is not live.
btree_malloc(s) ==
  IF BNodes \ s.alloc = {} THEN NULL
  ELSE CHOOSE n \in BNodes \ s.alloc : \A m \in BNodes \ s.alloc : n <= m

\* Returns [p: the new node or NULL, s].
ds_btree_node_create(s, data) ==
  IF data = NULL THEN [p |-> NULL, s |-> s]
  ELSE LET n == btree_malloc(s) IN
    IF n = NULL THEN [p |-> NULL, s |-> s]
    ELSE [p |-> n,
          s |-> [s EXCEPT !.alloc = @ \cup {n},
                          !.node[n] = [data |-> data, left |-> NULL, right |-> NULL]]]

\* An attach that links over an occupied slot (not the code's).
ds_btree_attach_node_right_overwrite(t, s, parent, n) ==
  IF ~t THEN [ret |-> "DS_ERR_NULL", s |-> s]
  ELSE IF parent = NULL \/ n = NULL THEN [ret |-> "DS_ERR_ARG", s |-> s]
  ELSE [ret |-> "DS_OK",
        s |-> [s EXCEPT !.node[parent].right = n, !.size = size_inc(@)]]

\* A detach that counts the child it unlinks only (not the code's).
ds_btree_detach_left_counted(t, s, parent) ==
  IF ~t \/ parent = NULL THEN [p |-> NULL, s |-> s]
  ELSE [p |-> s.node[parent].left,
        s |-> [s EXCEPT !.node[parent].left = NULL,
                        !.size = IF s.node[parent].left = NULL THEN @ ELSE size_dec(@)]]

\* A set_root that does not count the node (not the code's).
ds_btree_set_root_uncounted(t, s, n) ==
  IF ~t THEN [ret |-> "DS_ERR_NULL", s |-> s]
  ELSE IF n = NULL THEN [ret |-> "DS_ERR_ARG", s |-> s]
  ELSE IF s.root # NULL THEN [ret |-> "DS_ERR_EXIST", s |-> s]
  ELSE [ret |-> "DS_OK", s |-> [s EXCEPT !.root = n]]

\* Each of the following returns [ret, s]; t is FALSE for a NULL tree.
ds_btree_set_root(t, s, n) ==
  IF ~t THEN [ret |-> "DS_ERR_NULL", s |-> s]
  ELSE IF n = NULL THEN [ret |-> "DS_ERR_ARG", s |-> s]
  ELSE IF s.root # NULL THEN [ret |-> "DS_ERR_EXIST", s |-> s]
  ELSE [ret |-> "DS_OK", s |-> [s EXCEPT !.root = n, !.size = size_inc(@)]]

ds_btree_attach_node_left(t, s, parent, n) ==
  IF ~t THEN [ret |-> "DS_ERR_NULL", s |-> s]
  ELSE IF parent = NULL \/ n = NULL THEN [ret |-> "DS_ERR_ARG", s |-> s]
  ELSE IF s.node[parent].left # NULL THEN [ret |-> "DS_ERR_EXIST", s |-> s]
  ELSE [ret |-> "DS_OK",
        s |-> [s EXCEPT !.node[parent].left = n, !.size = size_inc(@)]]

ds_btree_attach_node_right(t, s, parent, n) ==
  IF ~t THEN [ret |-> "DS_ERR_NULL", s |-> s]
  ELSE IF parent = NULL \/ n = NULL THEN [ret |-> "DS_ERR_ARG", s |-> s]
  ELSE IF s.node[parent].right # NULL THEN [ret |-> "DS_ERR_EXIST", s |-> s]
  ELSE [ret |-> "DS_OK",
        s |-> [s EXCEPT !.node[parent].right = n, !.size = size_inc(@)]]

ds_btree_size(t, s) == IF ~t THEN 0 ELSE s.size

\* tree->size += subtree->size.
size_add(a, b) == (a + b) % SizeMod

EmptyTree == [root |-> NULL, size |-> 0]

\* A graft that counts the root it links only (not the code's).
ds_btree_attach_tree_left_counts_one(t, s, parent, subtree, src) ==
  IF ~t THEN [ret |-> "DS_ERR_NULL", s |-> s, sub |-> src]
  ELSE IF parent = NULL \/ ~subtree THEN [ret |-> "DS_ERR_ARG", s |-> s, sub |-> src]
  ELSE IF src.root = NULL THEN [ret |-> "DS_OK", s |-> s, sub |-> src]
  ELSE IF s.node[parent].left # NULL THEN [ret |-> "DS_ERR_EXIST", s |-> s, sub |-> src]
  ELSE [ret |-> "DS_OK",
        s |-> [s EXCEPT !.node[parent].left = src.root, !.size = size_inc(@)],
        sub |-> EmptyTree]

\* A graft that looks at the slot before it looks at the source (not the
\* code's).
ds_btree_attach_tree_right_slot_first(t, s, parent, subtree, src) ==
  IF ~t THEN [ret |-> "DS_ERR_NULL", s |-> s, sub |-> src]
  ELSE IF parent = NULL \/ ~subtree THEN [ret |-> "DS_ERR_ARG", s |-> s, sub |-> src]
  ELSE IF s.node[parent].right # NULL THEN [ret |-> "DS_ERR_EXIST", s |-> s, sub |-> src]
  ELSE IF src.root = NULL THEN [ret |-> "DS_OK", s |-> s, sub |-> src]
  ELSE [ret |-> "DS_OK",
        s |-> [s EXCEPT !.node[parent].right = src.root, !.size = size_add(@, src.size)],
        sub |-> EmptyTree]

\* Each of the following returns [ret, s, sub]; subtree is FALSE for a NULL
\* subtree, src is the subtree object [root, size], whose nodes are in the
\* heap of s.
ds_btree_attach_tree_left(t, s, parent, subtree, src) ==
  IF ~t THEN [ret |-> "DS_ERR_NULL", s |-> s, sub |-> src]
  ELSE IF parent = NULL \/ ~subtree THEN [ret |-> "DS_ERR_ARG", s |-> s, sub |-> src]
  ELSE IF src.root = NULL THEN [ret |-> "DS_OK", s |-> s, sub |-> src]
  ELSE IF s.node[parent].left # NULL THEN [ret |-> "DS_ERR_EXIST", s |-> s, sub |-> src]
  ELSE [ret |-> "DS_OK",
        s |-> [s EXCEPT !.node[parent].left = src.root, !.size = size_add(@, src.size)],
        sub |-> EmptyTree]

ds_btree_attach_tree_right(t, s, parent, subtree, src) ==
  IF ~t THEN [ret |-> "DS_ERR_NULL", s |-> s, sub |-> src]
  ELSE IF parent = NULL \/ ~subtree THEN [ret |-> "DS_ERR_ARG", s |-> s, sub |-> src]
  ELSE IF src.root = NULL THEN [ret |-> "DS_OK", s |-> s, sub |-> src]
  ELSE IF s.node[parent].right # NULL THEN [ret |-> "DS_ERR_EXIST", s |-> s, sub |-> src]
  ELSE [ret |-> "DS_OK",
        s |-> [s EXCEPT !.node[parent].right = src.root, !.size = size_add(@, src.size)],
        sub |-> EmptyTree]

\* A detach that leaves the child in its parent's slot (not the code's).
ds_btree_detach_left_keeps_link(t, s, parent) ==
  IF ~t \/ parent = NULL THEN [p |-> NULL, s |-> s]
  ELSE [p |-> s.node[parent].left, s |-> [s EXCEPT !.size = size_dec(@)]]

\* Each of the following returns [p: the detached child or NULL, s].
ds_btree_detach_left(t, s, parent) ==
  IF ~t \/ parent = NULL THEN [p |-> NULL, s |-> s]
  ELSE [p |-> s.node[parent].left,
        s |-> [s EXCEPT !.node[parent].left = NULL, !.size = size_dec(@)]]

ds_btree_detach_right(t, s, parent) ==
  IF ~t \/ parent = NULL THEN [p |-> NULL, s |-> s]
  ELSE [p |-> s.node[parent].right,
        s |-> [s EXCEPT !.node[parent].right = NULL, !.size = size_dec(@)]]

\* ------------------------------------------------------------------ height
RECURSIVE btree_height_node_shorter(_, _)
btree_height_node_shorter(s, n) ==
  IF n = NULL THEN 0
  ELSE LET left_subtree_height ==
             IF s.node[n].left # NULL
             THEN btree_height_node_shorter(s, s.node[n].left) ELSE 0
           right_subtree_height ==
             IF s.node[n].right # NULL
             THEN btree_height_node_shorter(s, s.node[n].right) ELSE 0
       IN IF left_subtree_height < right_subtree_height
          THEN size_inc(left_subtree_height)
          ELSE size_inc(right_subtree_height)

RECURSIVE btree_height_node(_, _)
btree_height_node(s, n) ==
  IF n = NULL THEN 0
  ELSE LET left_subtree_height ==
             IF s.node[n].left # NULL THEN btree_height_node(s, s.node[n].left) ELSE 0
           right_subtree_height ==
             IF s.node[n].right # NULL THEN btree_height_node(s, s.node[n].right) ELSE 0
       IN IF left_subtree_height > right_subtree_height
          THEN size_inc(left_subtree_height)
          ELSE size_inc(right_subtree_height)

ds_btree_height(t, s) == IF ~t THEN 0 ELSE btree_height_node(s, s.root)

\* ---------------------------------------------------- recursive traversals
\* A traversal returns the sequence of payloads it hands to visit; visit is
\* FALSE for a NULL callback.
RECURSIVE preorder_node_right_first(_, _)
preorder_node_right_first(s, n) ==
  IF n = NULL THEN <<>>
  ELSE <<s.node[n].data>> \o preorder_node_right_first(s, s.node[n].right)
                          \o preorder_node_right_first(s, s.node[n].left)

RECURSIVE preorder_node(_, _)
preorder_node(s, n) ==
  IF n = NULL THEN <<>>
  ELSE <<s.node[n].data>> \o preorder_node(s, s.node[n].left)
                          \o preorder_node(s, s.node[n].right)

ds_btree_traverse_preorder(t, s, visit) ==
  IF ~t \/ s.root = NULL \/ ~visit THEN <<>> ELSE preorder_node(s, s.root)

RECURSIVE inorder_node(_, _)
inorder_node(s, n) ==
  IF n = NULL THEN <<>>
  ELSE inorder_node(s, s.node[n].left) \o <<s.node[n].data>>
                                       \o inorder_node(s, s.node[n].right)

ds_btree_traverse_inorder(t, s, visit) ==
  IF ~t \/ s.root = NULL \/ ~visit THEN <<>> ELSE inorder_node(s, s.root)

RECURSIVE postorder_node(_, _)
postorder_node(s, n) ==
  IF n = NULL THEN <<>>
  ELSE postorder_node(s, s.node[n].left) \o postorder_node(s, s.node[n].right)
                                         \o <<s.node[n].data>>

ds_btree_traverse_postorder(t, s, visit) ==
  IF ~t \/ s.root = NULL \/ ~visit THEN <<>> ELSE postorder_node(s, s.root)

\* ---------------------------------------------------- iterative traversals
\* The locals of a running traversal are a record: curr, stack, visited (what
\* visit has received so far) and brk (the loop has been left by break).

\* One pass of the body of while (curr) of the iterative preorder.
pre_step(s, st) ==
  LET n == s.node[st.curr]
      visited1 == Append(st.visited, n.data)
      stack1 == IF n.right # NULL THEN ds_stack_push(st.stack, n.right).stack
                ELSE st.stack
  IN IF n.left # NULL
     THEN [curr |-> n.left, stack |-> stack1, visited |-> visited1, brk |-> FALSE]
     ELSE IF ~ds_stack_is_empty(stack1)
     THEN LET r == ds_stack_pop(stack1)
          IN [curr |-> r.ret, stack |-> r.stack, visited |-> visited1, brk |-> FALSE]
     ELSE [curr |-> st.curr, stack |-> stack1, visited |-> visited1, brk |-> TRUE]

RECURSIVE pre_loop(_, _)
pre_loop(s, st) ==
  IF st.curr = NULL \/ st.brk THEN st ELSE pre_loop(s, pre_step(s, st))

ds_btree_traverse_preorder_iterative(t, s, visit) ==
  IF ~t \/ s.root = NULL \/ ~visit THEN <<>>
  ELSE LET stack == ds_stack_create(s.size) IN
    IF stack = NullRef THEN <<>>
    ELSE pre_loop(s, [curr |-> s.root, stack |-> stack, visited |-> <<>>,
                      brk |-> FALSE]).visited

\* while (!curr) of the iterative inorder: pop, visit, go right.
RECURSIVE in_drain(_, _)
in_drain(s, st) ==
  IF st.curr # NULL THEN st
  ELSE IF ds_stack_is_empty(st.stack) THEN st
  ELSE LET r == ds_stack_pop(st.stack)
       IN in_drain(s, [curr |-> s.node[r.ret].right, stack |-> r.stack,
                       visited |-> Append(st.visited, s.node[r.ret].data),
                       brk |-> FALSE])

\* One pass of the body of while (curr) of the iterative inorder.
in_step(s, st) ==
  LET stack1 == ds_stack_push(st.stack, st.curr).stack IN
  IF s.node[st.curr].left # NULL
  THEN [st EXCEPT !.curr = s.node[st.curr].left, !.stack = stack1]
  ELSE LET r == ds_stack_pop(stack1)
       IN in_drain(s, [curr |-> s.node[r.ret].right, stack |-> r.stack,
                       visited |-> Append(st.visited, s.node[r.ret].data),
                       brk |-> FALSE])

RECURSIVE in_loop(_, _)
in_loop(s, st) == IF st.curr = NULL THEN st ELSE in_loop(s, in_step(s, st))

ds_btree_traverse_inorder_iterative(t, s, visit) ==
  IF ~t \/ s.root = NULL \/ ~visit THEN <<>>
  ELSE LET stack == ds_stack_create(s.size) IN
    IF stack = NullRef THEN <<>>
    ELSE in_loop(s, [curr |-> s.root, stack |-> stack, visited |-> <<>>,
                     brk |-> FALSE]).visited

\* The iterative postorder keeps its btree_post_frame_t objects on a heap of
\* their own: frames maps a frame address to [node, state], fralloc holds the
\* live addresses, and ended says that a failed malloc has ended the
\* traversal. The heap has room for one frame per node.
Frames == 1..MaxBuildNodes

frame_malloc(st) ==
  IF Frames \ st.fralloc = {} THEN NULL
  ELSE CHOOSE f \in Frames \ st.fralloc : \A g \in Frames \ st.fralloc : f <= g

\* if (child) { malloc a frame for it, push the frame }
post_enter(st, child) ==
  IF child = NULL THEN st
  ELSE LET f == frame_malloc(st) IN
    IF f = NULL THEN [st EXCEPT !.ended = TRUE]
    ELSE [st EXCEPT !.fralloc = @ \cup {f},
                    !.frames[f] = [node |-> child, state |-> "BTREE_POST_ENTER"],
                    !.stack = ds_stack_push(st.stack, f).stack]

\* Mutant: the pass takes the right child first and the left child second.
post_step_right_first(s, st) ==
  LET f == ds_stack_top(st.stack)
      fr == st.frames[f]
  IN IF fr.state = "BTREE_POST_ENTER"
     THEN post_enter([st EXCEPT !.frames[f].state = "BTREE_POST_LEFT_DONE"],
                     s.node[fr.node].right)
     ELSE IF fr.state = "BTREE_POST_LEFT_DONE"
     THEN post_enter([st EXCEPT !.frames[f].state = "BTREE_POST_DONE"],
                     s.node[fr.node].left)
     ELSE LET r == ds_stack_pop(st.stack)
          IN [st EXCEPT !.visited = Append(@, s.node[fr.node].data),
                        !.stack = r.stack,
                        !.fralloc = @ \ {r.ret}]

\* One pass of the body of while (!ds_stack_is_empty(stack)).
post_step(s, st) ==
  LET f == ds_stack_top(st.stack)
      fr == st.frames[f]
  IN IF fr.state = "BTREE_POST_ENTER"
     THEN post_enter([st EXCEPT !.frames[f].state = "BTREE_POST_LEFT_DONE"],
                     s.node[fr.node].left)
     ELSE IF fr.state = "BTREE_POST_LEFT_DONE"
     THEN post_enter([st EXCEPT !.frames[f].state = "BTREE_POST_DONE"],
                     s.node[fr.node].right)
     ELSE LET r == ds_stack_pop(st.stack)
          IN [st EXCEPT !.visited = Append(@, s.node[fr.node].data),
                        !.stack = r.stack,
                        !.fralloc = @ \ {r.ret}]

RECURSIVE post_loop(_, _)
post_loop(s, st) ==
  IF st.ended \/ ds_stack_is_empty(st.stack) THEN st
  ELSE post_loop(s, post_step(s, st))

\* The frame of the root is allocated and pushed before the loop.
post_begin(s, stack) ==
  post_enter([stack |-> stack, visited |-> <<>>,
              frames |-> [f \in Frames |-> [node |-> NULL, state |-> "free"]],
              fralloc |-> {}, ended |-> FALSE], s.root)

ds_btree_traverse_postorder_iterative(t, s, visit) ==
  IF ~t \/ s.root = NULL \/ ~visit THEN <<>>
  ELSE LET stack == ds_stack_create(s.size) IN
    IF stack = NullRef THEN <<>>
    ELSE post_loop(s, post_begin(s, stack)).visited

\* -------------------------------------------------------------------- clear
\* if (free_func) free_func(n->data); free(n); on the heap s with the events
\* ev so far. Returns [s, events].
release_node(s, ev, n, free_func) ==
  [s |-> Free(s, n),
   events |-> (IF free_func THEN Append(ev, [ev |-> "dtor", x |-> s.node[n].data])
               ELSE ev) \o <<[ev |-> "free", x |-> n]>>]

\* The locals of ds_btree_clear are a record: s (the heap), curr, stack,
\* last_visited and events. Its field oom is the environment of the call: it
\* says that malloc has no block left for ds_deque_grow.

\* ds_stack_push(stack, curr); the status is not looked at. With no block
\* left, the push on a full stack returns DS_ERR_MEM and the stack is as it
\* was.
clear_push(st) ==
  IF st.oom /\ ds_stack_size(st.stack) = st.stack[1].capacity THEN st.stack
  ELSE ds_stack_push(st.stack, st.curr).stack

\* while (curr) { push curr; curr = curr->left; }
RECURSIVE clear_descend(_)
clear_descend(st) ==
  IF st.curr = NULL THEN st
  ELSE clear_descend([st EXCEPT !.stack = clear_push(st),
                                !.curr = st.s.node[st.curr].left])

\* Mutant: the popped node is not remembered in last_visited.
clear_release_no_mark(st, p, r) ==
  [st EXCEPT !.stack = p.stack, !.s = r.s, !.events = r.events]

\* last_visited = ds_stack_pop(stack); free_func(peek->data); free(peek);
\* p is what the pop returned, r what the release did.
clear_release(st, p, r) ==
  [st EXCEPT !.last_visited = p.ret, !.stack = p.stack, !.s = r.s, !.events = r.events]

\* The if / else if on peek->right.
clear_visit(st, peek, right, free_func) ==
  IF right # NULL /\ st.last_visited # right
  THEN [st EXCEPT !.curr = right]
  ELSE IF right = NULL \/ (right # NULL /\ st.last_visited = right)
  THEN clear_release(st, ds_stack_pop(st.stack),
                     release_node(st.s, st.events, peek, free_func))
  ELSE st

\* ds_btree_node_t *peek = ds_stack_top(stack); and what follows it.
clear_peek(st, peek, free_func) ==
  clear_visit(st, peek, st.s.node[peek].right, free_func)

\* The pass once the inner loop has run.
clear_top(st, free_func) == clear_peek(st, ds_stack_top(st.stack), free_func)

\* One pass of the body of the do ... while loop.
clear_step(st, free_func) == clear_top(clear_descend(st), free_func)

RECURSIVE clear_loop(_, _)

\* while (!ds_stack_is_empty(stack));
clear_while(st, free_func) ==
  IF ds_stack_is_empty(st.stack) THEN st ELSE clear_loop(st, free_func)

clear_loop(st, free_func) == clear_while(clear_step(st, free_func), free_func)

\* The locals before the loop.
clear_begin(s, stack, oom) ==
  [s |-> s, curr |-> s.root, stack |-> stack, last_visited |-> NULL,
   events |-> <<>>, oom |-> oom]

\* tree->root = NULL; tree->size = 0;
clear_end(st) == [st.s EXCEPT !.root = NULL, !.size = 0]

\* Returns [s, events].
ds_btree_clear(t, s, free_func) ==
  IF ~t THEN [s |-> s, events |-> <<>>]
  ELSE IF s.root = NULL THEN [s |-> s, events |-> <<>>]
  ELSE LET stack == ds_stack_create(s.size) IN
    IF stack = NullRef THEN [s |-> s, events |-> <<>>]
    ELSE LET st == clear_loop(clear_begin(s, stack, FALSE), free_func)
         IN [s |-> clear_end(st), events |-> st.events]

\* ------------------------------------------------------------------ destroy
\* The locals of the first loop of ds_btree_destroy are a record: curr,
\* stack_traverse, stack_store, events and brk.

\* Mutant: the first loop keeps the right child for later and goes left.
destroy_step_left_first(s, st) ==
  LET n == s.node[st.curr]
      store1 == ds_stack_push(st.stack_store, st.curr).stack
      events1 == Append(st.events, [ev |-> "push", x |-> st.curr])
      trav1 == IF n.right # NULL THEN ds_stack_push(st.stack_traverse, n.right).stack
               ELSE st.stack_traverse
  IN IF n.left # NULL
     THEN [curr |-> n.left, stack_traverse |-> trav1, stack_store |-> store1,
           events |-> events1, brk |-> FALSE]
     ELSE IF ~ds_stack_is_empty(trav1)
     THEN LET r == ds_stack_pop(trav1)
          IN [curr |-> r.ret, stack_traverse |-> r.stack, stack_store |-> store1,
              events |-> events1, brk |-> FALSE]
     ELSE [curr |-> st.curr, stack_traverse |-> trav1, stack_store |-> store1,
           events |-> events1, brk |-> TRUE]

\* One pass of the body of while (curr).
destroy_step(s, st) ==
  LET n == s.node[st.curr]
      store1 == ds_stack_push(st.stack_store, st.curr).stack
      events1 == Append(st.events, [ev |-> "push", x |-> st.curr])
      trav1 == IF n.left # NULL THEN ds_stack_push(st.stack_traverse, n.left).stack
               ELSE st.stack_traverse
  IN IF n.right # NULL
     THEN [curr |-> n.right, stack_traverse |-> trav1, stack_store |-> store1,
           events |-> events1, brk |-> FALSE]
     ELSE IF ~ds_stack_is_empty(trav1)
     THEN LET r == ds_stack_pop(trav1)
          IN [curr |-> r.ret, stack_traverse |-> r.stack, stack_store |-> store1,
              events |-> events1, brk |-> FALSE]
     ELSE [curr |-> st.curr, stack_traverse |-> trav1, stack_store |-> store1,
           events |-> events1, brk |-> TRUE]

RECURSIVE destroy_collect(_, _)
destroy_collect(s, st) ==
  IF st.curr = NULL \/ st.brk THEN st ELSE destroy_collect(s, destroy_step(s, st))

\* while (!ds_stack_is_empty(stack_store)) { pop, destroy the payload, free }
\* Returns [s, events].
RECURSIVE destroy_release(_, _, _, _)
destroy_release(s, stack_store, ev, free_func) ==
  IF ds_stack_is_empty(stack_store) THEN [s |-> s, events |-> ev]
  ELSE LET p == ds_stack_pop(stack_store)
           r == release_node(s, ev, p.ret, free_func)
       IN destroy_release(r.s, p.stack, r.events, free_func)

\* One pass of that loop on the locals [s, stack_store, events].
destroy_release_step(st, free_func) ==
  LET p == ds_stack_pop(st.stack_store)
      r == release_node(st.s, st.events, p.ret, free_func)
  IN [s |-> r.s, stack_store |-> p.stack, events |-> r.events]

\* The locals before the first loop.
destroy_begin(s, stack_traverse, stack_store) ==
  [curr |-> s.root, stack_traverse |-> stack_traverse, stack_store |-> stack_store,
   events |-> <<>>, brk |-> FALSE]

\* Returns [s, events]; the event "free_tree" says that the tree object is gone.
ds_btree_destroy(t, s, free_func) ==
  IF ~t THEN [s |-> s, events |-> <<>>]
  ELSE IF s.root = NULL
  THEN [s |-> s, events |-> <<[ev |-> "free_tree", x |-> NULL]>>]
  ELSE LET stack_traverse == ds_stack_create(s.size) IN
    IF stack_traverse = NullRef THEN [s |-> s, events |-> <<>>]
    ELSE LET stack_store == ds_stack_create(s.size) IN
      IF stack_store = NullRef THEN [s |-> s, events |-> <<>>]
      ELSE LET st == destroy_collect(s, destroy_begin(s, stack_traverse, stack_store))
               r == destroy_release(s, st.stack_store, st.events, free_func)
           IN [s |-> r.s,
               events |-> Append(r.events, [ev |-> "free_tree", x |-> NULL])]

\* ------------------------------------------------------------- level order
\* One pass of the body of while (!ds_queue_is_empty(queue)); the locals are
\* queue and visited.
level_step(s, st) ==
  LET r == ds_queue_pop(st.queue)
      n == s.node[r.ret]
      q1 == IF n.left # NULL THEN ds_queue_push(r.queue, n.left).queue ELSE r.queue
      q2 == IF n.right # NULL THEN ds_queue_push(q1, n.right).queue ELSE q1
  IN [queue |-> q2, visited |-> Append(st.visited, n.data)]

RECURSIVE level_loop(_, _)
level_loop(s, st) ==
  IF ds_queue_is_empty(st.queue) THEN st ELSE level_loop(s, level_step(s, st))

ds_btree_traverse_levelorder(t, s, visit) ==
  IF ~t \/ s.root = NULL \/ ~visit THEN <<>>
  ELSE LET queue == ds_queue_create(s.size) IN
    IF queue = NullRef THEN <<>>
    ELSE level_loop(s, [queue |-> ds_queue_push(queue, s.root).queue,
                        visited |-> <<>>]).visited

\* ------------------------------------------------- binary tree: the caller
InitTrav ==
  /\ tree = [root |-> NULL, size |-> 0]
  /\ bnode = [n \in BNodes |-> Poison]
  /\ balloc = {}
  /\ held = NULL
  /\ tret = "create"
  /\ trav = "none"
  /\ visited = <<>>
  /\ hgt = 0
  /\ tfn = FALSE
  /\ events = <<>>
  /\ sub = [root |-> NULL, size |-> 0]
  /\ subWas = [root |-> NULL, size |-> 0]

SetBtree(s) ==
  /\ tree' = [root |-> s.root, size |-> s.size]
  /\ bnode' = s.node
  /\ balloc' = s.alloc

\* The nodes the caller can name as a parent: those of the unit under n.
RECURSIVE Unit(_, _)
Unit(s, n) ==
  IF n = NULL THEN {}
  ELSE {n} \cup Unit(s, s.node[n].left) \cup Unit(s, s.node[n].right)

\* A change of a tree forgets the last traversal.
Forget ==
  /\ trav' = "none"
  /\ visited' = <<>>
  /\ hgt' = 0
  /\ tfn' = FALSE
  /\ events' = <<>>
  /\ subWas' = [root |-> NULL, size |-> 0]
  /\ UNCHANGED <<bstVars, contVars, stepVars>>

Built ==
  /\ Forget
  /\ UNCHANGED sub

\* The caller numbers its payloads like the blocks (mk_int(i)) and keeps at
\* most one standalone unit at a time.
NodeCreate(data) ==
  /\ held = NULL
  /\ LET r == ds_btree_node_create(Btree, data) IN
       /\ SetBtree(r.s)
       /\ held' = r.p
       /\ tret' = IF r.p = NULL THEN "NULL" ELSE "node"
  /\ Built

SetRoot(t, n) ==
  /\ LET r == ds_btree_set_root(t, Btree, n) IN
       /\ SetBtree(r.s)
       /\ held' = IF r.ret = "DS_OK" THEN NULL ELSE held
       /\ tret' = r.ret
  /\ Built

AttachNodeLeft(t, parent, n) ==
  /\ LET r == ds_btree_attach_node_left(t, Btree, parent, n) IN
       /\ SetBtree(r.s)
       /\ held' = IF r.ret = "DS_OK" THEN NULL ELSE held
       /\ tret' = r.ret
  /\ Built

AttachNodeRight(t, parent, n) ==
  /\ LET r == ds_btree_attach_node_right(t, Btree, parent, n) IN
       /\ SetBtree(r.s)
       /\ held' = IF r.ret = "DS_OK" THEN NULL ELSE held
       /\ tret' = r.ret
  /\ Built

\* The count is decremented from MaxTreeNodes or less only, so that it takes
\* few values.
DetachLeft(t, parent) ==
  /\ held = NULL
  /\ tree.size <= MaxTreeNodes
  /\ LET r == ds_btree_detach_left(t, Btree, parent) IN
       /\ SetBtree(r.s)
       /\ held' = r.p
       /\ tret' = IF r.p = NULL THEN "NULL" ELSE "node"
  /\ Built

DetachRight(t, parent) ==
  /\ held = NULL
  /\ tree.size <= MaxTreeNodes
  /\ LET r == ds_btree_detach_right(t, Btree, parent) IN
       /\ SetBtree(r.s)
       /\ held' = r.p
       /\ tret' = IF r.p = NULL THEN "NULL" ELSE "node"
  /\ Built

\* A traversal: trav names it when it was given a tree and a visitor.
Traversed(name, t, visit, result) ==
  /\ trav' = IF t /\ visit THEN name ELSE "none"
  /\ visited' = result
  /\ hgt' = 0
  /\ tfn' = FALSE
  /\ events' = <<>>
  /\ tret' = "-"
  /\ UNCHANGED <<tree, bnode, balloc, held>>
  /\ UNCHANGED <<sub, subWas>>
  /\ UNCHANGED <<bstVars, contVars, stepVars>>

TraversePreorder(t, visit) ==
  Traversed("preorder", t, visit, ds_btree_traverse_preorder(t, Btree, visit))

TraverseInorder(t, visit) ==
  Traversed("inorder", t, visit, ds_btree_traverse_inorder(t, Btree, visit))

TraversePostorder(t, visit) ==
  Traversed("postorder", t, visit, ds_btree_traverse_postorder(t, Btree, visit))

TraversePreorderIterative(t, visit) ==
  Traversed("preorder_iterative", t, visit,
            ds_btree_traverse_preorder_iterative(t, Btree, visit))

TraverseInorderIterative(t, visit) ==
  Traversed("inorder_iterative", t, visit,
            ds_btree_traverse_inorder_iterative(t, Btree, visit))

TraversePostorderIterative(t, visit) ==
  Traversed("postorder_iterative", t, visit,
            ds_btree_traverse_postorder_iterative(t, Btree, visit))

\* trav names ds_btree_clear when it was given a tree. The caller clears when
\* it holds no standalone unit.
Clear(t, free_func) ==
  /\ held = NULL
  /\ LET r == ds_btree_clear(t, Btree, free_func) IN
       /\ SetBtree(r.s)
       /\ events' = r.events
  /\ trav' = IF t THEN "clear" ELSE "none"
  /\ tfn' = free_func
  /\ visited' = <<>>
  /\ hgt' = 0
  /\ tret' = "-"
  /\ UNCHANGED held
  /\ UNCHANGED <<sub, subWas>>
  /\ UNCHANGED <<bstVars, contVars, stepVars>>

\* trav names ds_btree_destroy when it was given a tree. The caller destroys
\* when it holds no standalone unit. Once the tree object is freed, its fields
\* are not read again: the caller's next step is ds_btree_create.
Destroy(t, free_func) ==
  /\ held = NULL
  /\ LET r == ds_btree_destroy(t, Btree, free_func) IN
       /\ SetBtree(r.s)
       /\ events' = r.events
  /\ trav' = IF t THEN "destroy" ELSE "none"
  /\ tfn' = free_func
  /\ visited' = <<>>
  /\ hgt' = 0
  /\ tret' = "-"
  /\ UNCHANGED held
  /\ UNCHANGED <<sub, subWas>>
  /\ UNCHANGED <<bstVars, contVars, stepVars>>

\* The tree object is live unless the last call was a destroy that freed it.
TreeLive ==
  ~(trav = "destroy" /\ \E i \in 1..Len(events) : events[i].ev = "free_tree")

\* ds_btree_create, after the tree was destroyed.
Create ==
  /\ ~TreeLive
  /\ tree' = [root |-> NULL, size |-> 0]
  /\ tret' = "create"
  /\ UNCHANGED <<bnode, balloc, held>>
  /\ Built

\* ---------------------------------------- a call of the tree, pass by pass
\* The iterative functions are followed one pass of their loop at a time:
\* run points to the call's record from its first statement until the caller
\* goes on.
MaxStepNodes == 4
MaxPasses == 4 * MaxStepNodes

StepFns ==
  {"preorder_iterative", "inorder_iterative", "postorder_iterative", "levelorder"}

\* The locals of fn before its loop, on the helper that ds_stack_create or
\* ds_queue_create returned (both stacks of ds_btree_destroy are created
\* alike).
run_begin(fn, s, stack, oom) ==
  IF fn \in {"preorder_iterative", "inorder_iterative"}
  THEN [curr |-> s.root, stack |-> stack, visited |-> <<>>, brk |-> FALSE]
  ELSE IF fn = "postorder_iterative" THEN post_begin(s, stack)
  ELSE IF fn = "levelorder"
  THEN [queue |-> ds_queue_push(stack, s.root).queue, visited |-> <<>>]
  ELSE IF fn = "clear" THEN clear_begin(s, stack, oom)
  ELSE destroy_begin(s, stack, stack)

\* The condition of the loop the call r stands in. The do ... while of
\* ds_btree_clear makes its first pass without a test.
run_continues(r) ==
  IF r.fn = "preorder_iterative" THEN r.st.curr # NULL /\ ~r.st.brk
  ELSE IF r.fn = "inorder_iterative" THEN r.st.curr # NULL
  ELSE IF r.fn = "postorder_iterative"
  THEN ~r.st.ended /\ ~ds_stack_is_empty(r.st.stack)
  ELSE IF r.fn = "levelorder" THEN ~ds_queue_is_empty(r.st.queue)
  ELSE IF r.fn = "clear" THEN r.passes = 0 \/ ~ds_stack_is_empty(r.st.stack)
  ELSE IF r.phase = "loop" THEN r.st.curr # NULL /\ ~r.st.brk
  ELSE ~ds_stack_is_empty(r.st.stack_store)

\* The locals after one more pass of that loop.
run_pass(r) ==
  IF r.fn = "preorder_iterative" THEN pre_step(Btree, r.st)
  ELSE IF r.fn = "inorder_iterative" THEN in_step(Btree, r.st)
  ELSE IF r.fn = "postorder_iterative" THEN post_step(Btree, r.st)
  ELSE IF r.fn = "levelorder" THEN level_step(Btree, r.st)
  ELSE IF r.fn = "clear" THEN clear_step(r.st, r.free_func)
  ELSE IF r.phase = "loop" THEN destroy_step(Btree, r.st)
  ELSE destroy_release_step(r.st, r.free_func)

Running == run # NullRef /\ run[1].phase # "done"

\* The nodes one pass of ds_btree_clear dereferences with curr->left: curr
\* and what the inner loop reaches from it.
RECURSIVE left_chain(_, _)
left_chain(s, n) ==
  IF n = NULL THEN {} ELSE {n} \cup left_chain(s, s.node[n].left)

\* The nodes whose fields the next pass of the call r reads, all of them
\* before the pass frees anything: in ds_btree_clear curr->left in the inner
\* loop, then peek->right and peek->data; in the first loop of
\* ds_btree_destroy curr->left and curr->right; in its second loop tmp->data
\* when there is a destructor.
pass_reads(r) ==
  IF r.fn = "clear"
  THEN left_chain(r.st.s, r.st.curr) \cup {ds_stack_top(clear_descend(r.st).stack)}
  ELSE IF r.phase = "loop" THEN {r.st.curr}
  ELSE IF r.free_func THEN {ds_stack_top(r.st.stack_store)}
  ELSE {}

\* The live nodes as the call r has them: the first loop of ds_btree_destroy
\* frees nothing, the other loops keep the heap in their locals.
pass_heap(r) ==
  IF r.fn = "destroy" /\ r.phase = "loop" THEN balloc ELSE r.st.s.alloc

\* The call of fn on a tree with a root (and with a visitor), up to its loop.
\* When the helper cannot be created the call returns at once and nothing
\* has changed.
RunBegin(fn, free_func, oom) ==
  /\ run = NullRef
  /\ held = NULL
  /\ tree.root # NULL
  /\ LET stack == ds_stack_create(tree.size) IN
       run' = Ref(IF stack = NullRef
                  THEN [fn |-> fn, phase |-> "done", passes |-> 0,
                        free_func |-> free_func, st |-> NullRef]
                  ELSE [fn |-> fn, phase |-> "loop", passes |-> 0,
                        free_func |-> free_func,
                        st |-> run_begin(fn, Btree, stack, oom)])
  /\ UNCHANGED <<bstVars, travVars, contVars>>

\* One pass of the loop. The passes are followed up to MaxPasses, more than
\* the loops make on a tree of MaxStepNodes nodes when every pass gets on.
RunStep ==
  /\ Running
  /\ run_continues(run[1])
  /\ run[1].passes < MaxPasses
  /\ run' = Ref([run[1] EXCEPT !.st = run_pass(run[1]), !.passes = @ + 1])
  /\ UNCHANGED <<bstVars, travVars, contVars>>

\* ds_btree_destroy between its loops: ds_stack_destroy(stack_traverse, NULL).
DestroyTurn ==
  /\ Running
  /\ run[1].fn = "destroy" /\ run[1].phase = "loop"
  /\ ~run_continues(run[1])
  /\ run' = Ref([run[1] EXCEPT !.phase = "release",
                               !.st = [s |-> Btree,
                                       stack_store |-> run[1].st.stack_store,
                                       events |-> run[1].st.events]])
  /\ UNCHANGED <<bstVars, travVars, contVars>>

\* What the caller has after a clear or a destroy that went through its loop.
Released(r, s, ev) ==
  /\ SetBtree(s)
  /\ events' = ev
  /\ trav' = r.fn
  /\ tfn' = r.free_func
  /\ visited' = <<>>
  /\ hgt' = 0
  /\ tret' = "-"
  /\ UNCHANGED <<held, sub, subWas>>

\* The statements after the loop, and the return.
RunEnd ==
  /\ Running
  /\ ~(run[1].fn = "destroy" /\ run[1].phase = "loop")
  /\ ~run_continues(run[1])
  /\ run' = Ref([run[1] EXCEPT !.phase = "done"])
  /\ IF run[1].fn = "clear"
     THEN Released(run[1], clear_end(run[1].st), run[1].st.events)
     ELSE IF run[1].fn = "destroy"
     THEN Released(run[1], run[1].st.s,
                   Append(run[1].st.events, [ev |-> "free_tree", x |-> NULL]))
     ELSE UNCHANGED travVars
  /\ UNCHANGED <<bstVars, contVars>>

\* The caller goes on.
RunReturn ==
  /\ run # NullRef
  /\ run[1].phase = "done"
  /\ run' = NullRef
  /\ UNCHANGED <<bstVars, travVars, contVars>>

\* trav names ds_btree_height when it was given a tree.
Height(t) ==
  /\ trav' = IF t THEN "height" ELSE "none"
  /\ visited' = <<>>
  /\ hgt' = ds_btree_height(t, Btree)
  /\ tfn' = FALSE
  /\ events' = <<>>
  /\ tret' = "-"
  /\ UNCHANGED <<tree, bnode, balloc, held>>
  /\ UNCHANGED <<sub, subWas>>
  /\ UNCHANGED <<bstVars, contVars, stepVars>>

TraverseLevelorder(t, visit) ==
  Traversed("levelorder", t, visit, ds_btree_traverse_levelorder(t, Btree, visit))

\* The second tree, with the heap it shares with the first.
SubBtree == [root |-> sub.root, size |-> sub.size, node |-> bnode, alloc |-> balloc]

SetSub(s) ==
  /\ sub' = [root |-> s.root, size |-> s.size]
  /\ bnode' = s.node
  /\ balloc' = s.alloc

\* The calls that build the second tree.
SubSetRoot(n) ==
  /\ LET r == ds_btree_set_root(TRUE, SubBtree, n) IN
       /\ SetSub(r.s)
       /\ held' = IF r.ret = "DS_OK" THEN NULL ELSE held
       /\ tret' = r.ret
  /\ Forget
  /\ UNCHANGED tree

SubAttachNodeLeft(parent, n) ==
  /\ LET r == ds_btree_attach_node_left(TRUE, SubBtree, parent, n) IN
       /\ SetSub(r.s)
       /\ held' = IF r.ret = "DS_OK" THEN NULL ELSE held
       /\ tret' = r.ret
  /\ Forget
  /\ UNCHANGED tree

SubAttachNodeRight(parent, n) ==
  /\ LET r == ds_btree_attach_node_right(TRUE, SubBtree, parent, n) IN
       /\ SetSub(r.s)
       /\ held' = IF r.ret = "DS_OK" THEN NULL ELSE held
       /\ tret' = r.ret
  /\ Forget
  /\ UNCHANGED tree

SubDetachLeft(parent) ==
  /\ held = NULL
  /\ sub.size <= MaxGraftNodes
  /\ LET r == ds_btree_detach_left(TRUE, SubBtree, parent) IN
       /\ SetSub(r.s)
       /\ held' = r.p
       /\ tret' = IF r.p = NULL THEN "NULL" ELSE "node"
  /\ Forget
  /\ UNCHANGED tree

\* A graft of the second tree into the first: trav names the call and subWas
\* keeps the source as it was, when the call was given a tree, a parent and a
\* subtree.
Grafted(name, t, parent, subtree, r) ==
  /\ SetBtree(r.s)
  /\ sub' = r.sub
  /\ tret' = r.ret
  /\ trav' = IF t /\ parent # NULL /\ subtree THEN name ELSE "none"
  /\ subWas' = IF t /\ parent # NULL /\ subtree THEN sub ELSE EmptyTree
  /\ visited' = <<>>
  /\ hgt' = 0
  /\ tfn' = FALSE
  /\ events' = <<>>
  /\ UNCHANGED held
  /\ UNCHANGED <<bstVars, contVars, stepVars>>

AttachTreeLeft(t, parent, subtree) ==
  Grafted("attach_tree_left", t, parent, subtree,
          ds_btree_attach_tree_left(t, Btree, parent, subtree, sub))

AttachTreeRight(t, parent, subtree) ==
  Grafted("attach_tree_right", t, parent, subtree,
          ds_btree_attach_tree_right(t, Btree, parent, subtree, sub))

\* ------------------------------------------------------------------- vector
DS_VECTOR_DEFAULT_CAPACITY == 16
DS_VECTOR_GROWTH_FACTOR == 2

\* realloc(items, sizeof(void *) * new_capacity): the old slots keep their
\* contents; a new slot is written before it is read.
realloc_items(items, capacity, new_capacity) ==
  [i \in 0..(new_capacity - 1) |-> IF i < capacity THEN items[i] ELSE NULL]

\* memmove(&items[index+1], &items[index], (n - index) * sizeof(void *)), n
\* the size of the vector.
memmove_up(items, index, n) ==
  [i \in DOMAIN items |-> IF index < i /\ i <= n THEN items[i - 1] ELSE items[i]]

\* memmove(&items[index], &items[index+1], (n - index - 1) * sizeof(void *)).
memmove_down(items, index, n) ==
  [i \in DOMAIN items |-> IF index <= i /\ i + 1 < n THEN items[i + 1] ELSE items[i]]

\* Returns a pointer to the new vector, or NullRef.
ds_vector_create(capacity_hint) ==
  LET capacity == IF capacity_hint = 0 THEN DS_VECTOR_DEFAULT_CAPACITY
                  ELSE capacity_hint
  IN IF ~malloc_items(capacity) THEN NullRef
     ELSE Ref([items |-> NewItems(capacity), capacity |-> capacity, size |-> 0])

ds_vector_size(v) == IF v = NullRef THEN 0 ELSE v[1].size
ds_vector_capacity(v) == IF v = NullRef THEN 0 ELSE v[1].capacity

\* Returns [ret, v].
ds_vector_reserve(v, new_capacity) ==
  IF v = NullRef \/ new_capacity < v[1].size THEN [ret |-> "DS_ERR_BOUNDS", v |-> v]
  ELSE IF new_capacity <= v[1].capacity THEN [ret |-> "DS_OK", v |-> v]
  ELSE IF ~malloc_items(new_capacity) THEN [ret |-> "DS_ERR_MEM", v |-> v]
  ELSE [ret |-> "DS_OK",
        v |-> Ref([v[1] EXCEPT
                     !.items = realloc_items(v[1].items, v[1].capacity, new_capacity),
                     !.capacity = new_capacity])]

ds_vector_get(v, index) ==
  IF v = NullRef \/ index >= v[1].size THEN NULL ELSE v[1].items[index]

\* Returns [ret, v, freed]: freed is the element handed to old_element_free
\* (NULL: none).
ds_vector_set(v, index, element, old_element_free) ==
  IF v = NullRef \/ index >= v[1].size \/ element = NULL
  THEN [ret |-> "DS_ERR_BOUNDS", v |-> v, freed |-> NULL]
  ELSE [ret |-> "DS_OK",
        v |-> Ref([v[1] EXCEPT !.items[index] = element]),
        freed |-> IF old_element_free THEN v[1].items[index] ELSE NULL]

\* The vector has room: the elements from index on move up by one.
vector_insert_at(d, index, element) ==
  [d EXCEPT !.items = [memmove_up(d.items, index, d.size) EXCEPT ![index] = element],
            !.size = size_inc(d.size)]

\* Returns [ret, v].
ds_vector_insert(v, index, element) ==
  IF v = NullRef \/ index > v[1].size \/ element = NULL
  THEN [ret |-> "DS_ERR_BOUNDS", v |-> v]
  ELSE
    LET g == IF v[1].size = v[1].capacity
             THEN ds_vector_reserve(v, (v[1].capacity * DS_VECTOR_GROWTH_FACTOR) % SizeMod)
             ELSE [ret |-> "DS_OK", v |-> v]
    IN IF g.ret # "DS_OK" THEN [ret |-> g.ret, v |-> v]
       ELSE [ret |-> "DS_OK", v |-> Ref(vector_insert_at(g.v[1], index, element))]

\* Returns [ret, v].
ds_vector_push_back(v, element) ==
  IF v = NullRef \/ element = NULL THEN [ret |-> "DS_ERR_BOUNDS", v |-> v]
  ELSE ds_vector_insert(v, v[1].size, element)

\* Returns [ret, v].
ds_vector_pop_back(v) ==
  IF v = NullRef \/ v[1].size = 0 THEN [ret |-> NULL, v |-> v]
  ELSE [ret |-> v[1].items[v[1].size - 1],
        v |-> Ref([v[1] EXCEPT !.size = size_dec(v[1].size)])]

\* Returns [ret, v, freed]: freed is the element handed to free_func (NULL:
\* none).
ds_vector_remove(v, index, free_func) ==
  IF v = NullRef \/ index >= v[1].size
  THEN [ret |-> "DS_ERR_BOUNDS", v |-> v, freed |-> NULL]
  ELSE [ret |-> "DS_OK",
        v |-> Ref([v[1] EXCEPT !.items = memmove_down(v[1].items, index, v[1].size),
                               !.size = size_dec(v[1].size)]),
        freed |-> IF free_func THEN v[1].items[index] ELSE NULL]

\* --------------------------------------------------------------------- heap
DS_HEAP_DEFAULT_CAPACITY == 16
DS_HEAP_GROWTH_FACTOR == 2

HEAP_PARENT(i) == ((i + SIZE_MAX) % SizeMod) \div 2
HEAP_LCHILD(i) == (((i * 2) % SizeMod) + 1) % SizeMod

\* The comparators of test_heap.c; an element is a pointer to an int, modelled
\* by the int.
int_compare_min(a, b) == IF a < b THEN -1 ELSE IF a > b THEN 1 ELSE 0
int_compare_max(a, b) == IF a > b THEN -1 ELSE IF a < b THEN 1 ELSE 0

\* heap->compare(a, b).
heap_compare(d, a, b) ==
  IF d.compare = "int_compare_min" THEN int_compare_min(a, b)
  ELSE int_compare_max(a, b)

\* while (i > 0) of shift_up, then items[i] = x.
RECURSIVE shift_up_loop(_, _, _)
shift_up_loop(d, i, x) ==
  IF i > 0 /\ heap_compare(d, x, d.items[HEAP_PARENT(i)]) < 0
  THEN shift_up_loop([d EXCEPT !.items[i] = d.items[HEAP_PARENT(i)]], HEAP_PARENT(i), x)
  ELSE [d EXCEPT !.items[i] = x]

shift_up(d) ==
  IF d.size = 0 THEN d
  ELSE shift_up_loop(d, d.size - 1, d.items[d.size - 1])

\* Mutant: the right child is never looked at.
shift_down_best_left(d, n, l) == l

\* The better child of the node whose left child is l.
shift_down_best(d, n, l) ==
  IF l + 1 < n /\ heap_compare(d, d.items[l + 1], d.items[l]) < 0 THEN l + 1 ELSE l

\* What the next pass of for (;;) does with i: "stop" or the index of the
\* child that moves up.
shift_down_next(d, n, i, x) ==
  IF HEAP_LCHILD(i) >= n THEN n
  ELSE IF heap_compare(d, d.items[shift_down_best(d, n, HEAP_LCHILD(i))], x) < 0
       THEN shift_down_best(d, n, HEAP_LCHILD(i))
       ELSE n

\* for (;;) of shift_down, then items[i] = x; best = n stands for break.
RECURSIVE shift_down_loop(_, _, _, _)
shift_down_move(d, n, i, x, best) ==
  IF best = n THEN [d EXCEPT !.items[i] = x]
  ELSE shift_down_loop([d EXCEPT !.items[i] = d.items[best]], n, best, x)
shift_down_loop(d, n, i, x) == shift_down_move(d, n, i, x, shift_down_next(d, n, i, x))

shift_down(d) ==
  IF d.size = 0 THEN d
  ELSE shift_down_loop(d, d.size, 0, d.items[0])

\* Returns a pointer to the new heap, or NullRef. compare is the name of the
\* comparator ("NULL": none).
ds_heap_create(compare, capacity_hint) ==
  IF compare = "NULL" THEN NullRef
  ELSE
    LET capacity == IF capacity_hint = 0 THEN DS_HEAP_DEFAULT_CAPACITY
                    ELSE capacity_hint
    IN IF ~malloc_items(capacity) THEN NullRef
       ELSE Ref([items |-> NewItems(capacity), capacity |-> capacity,
                 size |-> 0, compare |-> compare])

ds_heap_size(h) == IF h = NullRef THEN 0 ELSE h[1].size
ds_heap_is_empty(h) == IF h = NullRef THEN TRUE ELSE h[1].size = 0

\* The heap has room: the element goes to the end and moves up.
heap_push_at(d, element) ==
  shift_up([d EXCEPT !.items[d.size] = element, !.size = size_inc(d.size)])

\* The heap is full: its array is reallocated. Returns [ret, d].
heap_grow(d, new_cap) ==
  IF ~malloc_items(new_cap) THEN [ret |-> "DS_ERR_MEM", d |-> d]
  ELSE [ret |-> "DS_OK",
        d |-> [d EXCEPT !.items = realloc_items(d.items, d.capacity, new_cap),
                        !.capacity = new_cap]]

\* Returns [ret, h].
ds_heap_push(h, element) ==
  IF h = NullRef THEN [ret |-> "DS_ERR_NULL", h |-> h]
  ELSE IF element = NULL THEN [ret |-> "DS_ERR_ARG", h |-> h]
  ELSE
    LET g == IF h[1].size = h[1].capacity
             THEN heap_grow(h[1], (h[1].capacity * DS_HEAP_GROWTH_FACTOR) % SizeMod)
             ELSE [ret |-> "DS_OK", d |-> h[1]]
    IN IF g.ret # "DS_OK" THEN [ret |-> g.ret, h |-> h]
       ELSE [ret |-> "DS_OK", h |-> Ref(heap_push_at(g.d, element))]

\* Returns [ret, h].
ds_heap_pop(h) ==
  IF h = NullRef THEN [ret |-> NULL, h |-> h]
  ELSE IF h[1].size = 0 THEN [ret |-> NULL, h |-> h]
  ELSE [ret |-> h[1].items[0],
        h |-> Ref(shift_down([h[1] EXCEPT !.items[0] = h[1].items[h[1].size - 1],
                                          !.size = size_dec(h[1].size)]))]

ds_heap_top(h) ==
  IF h = NullRef THEN NULL
  ELSE IF h[1].size = 0 THEN NULL
  ELSE h[1].items[0]

\* --------------------------------------------------------------------- list
\* A list is [head, tail, size, node, alloc]: node maps the address of a
\* ds_list_node_t to [data, prev, next], alloc is the set of the live ones.
\* An iterator is the address of a node, or NULL.
\* The most the caller keeps in the list; the heap has room for that many
\* nodes.
MaxListLen == 4
ListAddrs == 1..MaxListLen
FreeListNode == [data |-> NULL, prev |-> NULL, next |-> NULL]

\* malloc(sizeof(ds_list_node_t)): the least address that is not live.
list_malloc(l) ==
  IF ListAddrs \ l.alloc = {} THEN NULL
  ELSE CHOOSE a \in ListAddrs \ l.alloc : \A b \in ListAddrs \ l.alloc : a <= b

\* free(tmp).
list_free(l, tmp) ==
  [l EXCEPT !.node[tmp] = FreeListNode, !.alloc = l.alloc \ {tmp}]

ds_list_create ==
  [head |-> NULL, tail |-> NULL, size |-> 0,
   node |-> [a \in ListAddrs |-> FreeListNode], alloc |-> {}]

ds_list_size(t, l) == IF ~t THEN 0 ELSE l.size
ds_list_is_empty(t, l) == IF ~t THEN TRUE ELSE l.size = 0

ds_list_iter_begin(t, l) == IF ~t \/ l.size = 0 THEN NULL ELSE l.head
ds_list_iter_end(t, l) == NULL
ds_list_iter_tail(t, l) == IF ~t \/ l.size = 0 THEN NULL ELSE l.tail
ds_list_iter_next(l, it) == IF it = NULL THEN NULL ELSE l.node[it].next
ds_list_iter_prev(l, it) == IF it = NULL THEN NULL ELSE l.node[it].prev
ds_list_iter_get(l, it) == IF it = NULL THEN NULL ELSE l.node[it].data

\* Case 1 of ds_list_insert: the list is empty.
list_link_empty(l, nd, element) ==
  [l EXCEPT !.node[nd] = [data |-> element, prev |-> NULL, next |-> NULL],
            !.head = nd,
            !.tail = nd]

\* Case 2: it == head.
list_link_head(l, nd, element) ==
  [l EXCEPT !.node[nd] = [data |-> element, prev |-> NULL, next |-> l.head],
            !.node[l.head].prev = nd,
            !.head = nd]

\* Case 3: it == NULL.
list_link_end(l, nd, element) ==
  [l EXCEPT !.node[nd] = [data |-> element, prev |-> l.tail, next |-> NULL],
            !.node[l.tail].next = nd,
            !.tail = nd]

\* Mutant: the node after the new one keeps its old prev.
list_link_before_no_prev(l, nd, it, element) ==
  [l EXCEPT !.node[nd] = [data |-> element, prev |-> l.node[it].prev, next |-> it],
            !.node[l.node[it].prev].next = nd]

\* Case 4: the new node goes between it->prev and it.
list_link_before(l, nd, it, element) ==
  [l EXCEPT !.node[nd] = [data |-> element, prev |-> l.node[it].prev, next |-> it],
            !.node[l.node[it].prev].next = nd,
            !.node[it].prev = nd]

\* The four cases, then size ++; nd is the new node.
list_link(l, nd, it, element) ==
  LET linked == IF l.size = 0 THEN list_link_empty(l, nd, element)
                ELSE IF it = l.head THEN list_link_head(l, nd, element)
                ELSE IF it = NULL THEN list_link_end(l, nd, element)
                ELSE list_link_before(l, nd, it, element)
  IN [linked EXCEPT !.alloc = l.alloc \cup {nd}, !.size = size_inc(l.size)]

\* Returns [ret, l].
ds_list_insert(t, l, it, element) ==
  IF ~t THEN [ret |-> "DS_ERR_NULL", l |-> l]
  ELSE IF element = NULL THEN [ret |-> "DS_ERR_ARG", l |-> l]
  ELSE IF list_malloc(l) = NULL THEN [ret |-> "DS_ERR_MEM", l |-> l]
  ELSE [ret |-> "DS_OK", l |-> list_link(l, list_malloc(l), it, element)]

\* Returns [ret, l].
ds_list_push_back(t, l, element) ==
  IF ~t THEN [ret |-> "DS_ERR_NULL", l |-> l]
  ELSE IF element = NULL THEN [ret |-> "DS_ERR_ARG", l |-> l]
  ELSE ds_list_insert(t, l, NULL, element)

\* Returns [ret, l].
ds_list_push_front(t, l, element) ==
  IF ~t THEN [ret |-> "DS_ERR_NULL", l |-> l]
  ELSE IF element = NULL THEN [ret |-> "DS_ERR_ARG", l |-> l]
  ELSE ds_list_insert(t, l, l.head, element)

\* free(tmp); list->size --.
list_release(l, tmp) ==
  [list_free(l, tmp) EXCEPT !.size = size_dec(l.size)]

\* Returns [ret, l].
ds_list_pop_back(t, l) ==
  IF ~t \/ l.size = 0 THEN [ret |-> NULL, l |-> l]
  ELSE [ret |-> l.node[l.tail].data,
        l |-> list_release(
                IF l.size = 1 THEN [l EXCEPT !.head = NULL, !.tail = NULL]
                ELSE [l EXCEPT !.node[l.node[l.tail].prev].next = NULL,
                               !.tail = l.node[l.tail].prev],
                l.tail)]

\* Returns [ret, l].
ds_list_pop_front(t, l) ==
  IF ~t \/ l.size = 0 THEN [ret |-> NULL, l |-> l]
  ELSE [ret |-> l.node[l.head].data,
        l |-> list_release(
                IF l.size = 1 THEN [l EXCEPT !.head = NULL, !.tail = NULL]
                ELSE [l EXCEPT !.node[l.node[l.head].next].prev = NULL,
                               !.head = l.node[l.head].next],
                l.head)]

\* The four cases of ds_list_remove. Returns [ret, tmp, l]: the iterator to
\* return, the node to free and the list with the node unlinked.
list_unlink(l, it) ==
  IF l.size = 1
  THEN [ret |-> NULL, tmp |-> l.tail, l |-> [l EXCEPT !.head = NULL, !.tail = NULL]]
  ELSE IF it = l.tail
  THEN [ret |-> NULL, tmp |-> l.tail,
        l |-> [l EXCEPT !.node[l.node[l.tail].prev].next = NULL,
                        !.tail = l.node[l.tail].prev]]
  ELSE IF it = l.head
  THEN [ret |-> l.node[l.head].next, tmp |-> l.head,
        l |-> [l EXCEPT !.node[l.node[l.head].next].prev = NULL,
                        !.head = l.node[l.head].next]]
  ELSE [ret |-> l.node[it].next, tmp |-> it,
        l |-> [l EXCEPT !.node[l.node[it].prev].next = l.node[it].next,
                        !.node[l.node[it].next].prev = l.node[it].prev]]

\* Returns [ret, l, freed]: freed is the element handed to free_func (NULL:
\* none).
ds_list_remove(t, l, it, free_func) ==
  IF ~t \/ it = NULL THEN [ret |-> NULL, l |-> l, freed |-> NULL]
  ELSE [ret |-> list_unlink(l, it).ret,
        l |-> list_release(list_unlink(l, it).l, list_unlink(l, it).tmp),
        freed |-> IF free_func THEN l.node[list_unlink(l, it).tmp].data ELSE NULL]

\* ------------------------------------------------- the container callers
\* The capacity hint of the create call, the elements the caller pushes
\* (mk_int(i)) and the most it keeps in a deque, a stack or a queue.
DequeHint == 2
MaxElem == 2
Elems == 1..MaxElem
MaxDequeLen == 5
\* The capacity hint of the vector (test_vector.c creates it with 2), the most
\* the caller keeps in it, the indexes it passes and the capacities it asks
\* ds_vector_reserve for.
VecHint == 2
MaxVecLen == 4
VecIndexes == 0..(MaxVecLen + 1)
ReserveCaps == {0, 1, MaxVecLen - 1, 2 * MaxVecLen, SIZE_MAX - 1}
\* The capacity hint of the heap (test_heap.c creates it with 1, 2 and 4), the
\* values the caller pushes and the most it keeps in the heap.
HeapHint == 2
MaxHeapVal == 3
HeapVals == 1..MaxHeapVal
MaxHeapLen == 5

InitCont ==
  /\ deque = ds_deque_create(DequeHint)
  /\ vec = ds_vector_create(VecHint)
  /\ heap = ds_heap_create("int_compare_min", HeapHint)
  /\ list = ds_list_create
  /\ liter = NULL
  /\ cref = <<>>
  /\ cop = "create"
  /\ cst = "-"
  /\ cret = NULL

NotCont == UNCHANGED <<bstVars, travVars, stepVars>>
NotDeque == NotCont /\ UNCHANGED <<vec, heap, list, liter>>
NotVector == NotCont /\ UNCHANGED <<deque, heap, list, liter>>
NotHeap == NotCont /\ UNCHANGED <<deque, vec, list, liter>>
NotList == NotCont /\ UNCHANGED <<deque, vec, heap>>

\* The reference sequence without its first and without its last element.
Rest(sq) == IF sq = <<>> THEN sq ELSE SubSeq(sq, 2, Len(sq))
Front(sq) == IF sq = <<>> THEN sq ELSE SubSeq(sq, 1, Len(sq) - 1)

\* A call that returns a status: r is [ret, dq]; done is the reference after
\* a call that succeeds.
Pushed(name, r, done) ==
  /\ deque' = r.dq
  /\ cref' = IF r.ret = "DS_OK" THEN done ELSE cref
  /\ cop' = name
  /\ cst' = r.ret
  /\ cret' = NULL
  /\ NotDeque

\* A call that removes and returns an element: r is [ret, dq].
Popped(name, r, done) ==
  /\ deque' = r.dq
  /\ cref' = done
  /\ cop' = name
  /\ cst' = "-"
  /\ cret' = r.ret
  /\ NotDeque

\* A call that returns an element and removes nothing.
Peeked(name, element) ==
  /\ cop' = name
  /\ cst' = "-"
  /\ cret' = element
  /\ UNCHANGED <<deque, cref>>
  /\ NotDeque

DequePushBack(element) ==
  /\ Len(cref) < MaxDequeLen
  /\ Pushed("push_back", ds_deque_push_back(deque, element), Append(cref, element))

DequePushFront(element) ==
  /\ Len(cref) < MaxDequeLen
  /\ Pushed("push_front", ds_deque_push_front(deque, element), <<element>> \o cref)

DequePopBack == Popped("pop_back", ds_deque_pop_back(deque), Front(cref))
DequePopFront == Popped("pop_front", ds_deque_pop_front(deque), Rest(cref))
DequeFront == Peeked("front", ds_deque_front(deque))
DequeBack == Peeked("back", ds_deque_back(deque))

StackPush(element) ==
  /\ Len(cref) < MaxDequeLen
  /\ LET r == ds_stack_push(deque, element)
     IN Pushed("stack_push", [ret |-> r.ret, dq |-> r.stack], Append(cref, element))

StackPop ==
  LET r == ds_stack_pop(deque)
  IN Popped("stack_pop", [ret |-> r.ret, dq |-> r.stack], Front(cref))

StackTop == Peeked("stack_top", ds_stack_top(deque))

QueuePush(element) ==
  /\ Len(cref) < MaxDequeLen
  /\ LET r == ds_queue_push(deque, element)
     IN Pushed("queue_push", [ret |-> r.ret, dq |-> r.queue], Append(cref, element))

QueuePop ==
  LET r == ds_queue_pop(deque)
  IN Popped("queue_pop", [ret |-> r.ret, dq |-> r.queue], Rest(cref))

QueueFront == Peeked("queue_front", ds_queue_front(deque))

\* The vector calls. t: the call is made on the vector (FALSE: on NULL).
VecArg(t) == IF t THEN vec ELSE NullRef

\* The reference with element put before position index (counted from 0),
\* with position index replaced, and without position index.
SeqInsert(sq, index, element) ==
  SubSeq(sq, 1, index) \o <<element>> \o SubSeq(sq, index + 1, Len(sq))
SeqSet(sq, index, element) == [sq EXCEPT ![index + 1] = element]
SeqRemove(sq, index) == SubSeq(sq, 1, index) \o SubSeq(sq, index + 2, Len(sq))

\* A vector call that returns a status: r is [ret, v]; done is the reference
\* after a call that succeeds, released the element handed to the destructor.
VectorCalled(name, r, done, released) ==
  /\ vec' = IF r.v = NullRef THEN vec ELSE r.v
  /\ cref' = IF r.ret = "DS_OK" THEN done ELSE cref
  /\ cop' = name
  /\ cst' = r.ret
  /\ cret' = released
  /\ NotVector

VectorReserve(t, new_capacity) ==
  VectorCalled("vector_reserve", ds_vector_reserve(VecArg(t), new_capacity), cref, NULL)

VectorPushBack(t, element) ==
  /\ Len(cref) < MaxVecLen
  /\ VectorCalled("vector_push_back", ds_vector_push_back(VecArg(t), element),
                  Append(cref, element), NULL)

VectorInsert(t, index, element) ==
  /\ Len(cref) < MaxVecLen
  /\ VectorCalled("vector_insert", ds_vector_insert(VecArg(t), index, element),
                  SeqInsert(cref, index, element), NULL)

VectorSet(t, index, element, old_element_free) ==
  LET r == ds_vector_set(VecArg(t), index, element, old_element_free)
  IN VectorCalled("vector_set", r, SeqSet(cref, index, element), r.freed)

VectorRemove(t, index, free_func) ==
  LET r == ds_vector_remove(VecArg(t), index, free_func)
  IN VectorCalled("vector_remove", r, SeqRemove(cref, index), r.freed)

VectorPopBack(t) ==
  LET r == ds_vector_pop_back(VecArg(t)) IN
  /\ vec' = IF r.v = NullRef THEN vec ELSE r.v
  /\ cref' = IF t THEN Front(cref) ELSE cref
  /\ cop' = "vector_pop_back"
  /\ cst' = "-"
  /\ cret' = r.ret
  /\ NotVector

VectorGet(t, index) ==
  /\ cop' = "vector_get"
  /\ cst' = "-"
  /\ cret' = ds_vector_get(VecArg(t), index)
  /\ UNCHANGED <<vec, cref>>
  /\ NotVector

\* The heap calls. t: the call is made on the heap (FALSE: on NULL).
HeapArg(t) == IF t THEN heap ELSE NullRef

\* The reference of the heap: the elements pushed and not yet popped, in
\* increasing order of their values.
RECURSIVE SortedInsert(_, _)
SortedInsert(sq, element) ==
  IF sq = <<>> THEN <<element>>
  ELSE IF element <= Head(sq) THEN <<element>> \o sq
  ELSE <<Head(sq)>> \o SortedInsert(Tail(sq), element)

RECURSIVE SortedRemove(_, _)
SortedRemove(sq, element) ==
  IF sq = <<>> THEN sq
  ELSE IF element = Head(sq) THEN Tail(sq)
  ELSE <<Head(sq)>> \o SortedRemove(Tail(sq), element)

\* The caller destroys its heap and creates one with the comparator compare.
HeapCreate(compare) ==
  /\ heap' = ds_heap_create(compare, HeapHint)
  /\ cref' = <<>>
  /\ cop' = "heap_create"
  /\ cst' = "-"
  /\ cret' = NULL
  /\ NotHeap

HeapPush(t, element) ==
  /\ Len(cref) < MaxHeapLen
  /\ LET r == ds_heap_push(HeapArg(t), element) IN
       /\ heap' = IF t THEN r.h ELSE heap
       /\ cref' = IF r.ret = "DS_OK" THEN SortedInsert(cref, element) ELSE cref
       /\ cop' = "heap_push"
       /\ cst' = r.ret
       /\ cret' = NULL
  /\ NotHeap

HeapPop(t) ==
  /\ LET r == ds_heap_pop(HeapArg(t)) IN
       /\ heap' = IF t THEN r.h ELSE heap
       /\ cref' = SortedRemove(cref, r.ret)
       /\ cop' = "heap_pop"
       /\ cst' = "-"
       /\ cret' = r.ret
  /\ NotHeap

HeapTop(t) ==
  /\ cop' = "heap_top"
  /\ cst' = "-"
  /\ cret' = ds_heap_top(HeapArg(t))
  /\ UNCHANGED <<heap, cref>>
  /\ NotHeap

\* The list calls. t: the call is made on the list (FALSE: on NULL).
\* The number of ds_list_iter_next calls that lead from p to it (to the end
\* for it = NULL); k counts them.
RECURSIVE IterSteps(_, _, _, _)
IterSteps(l, p, it, k) ==
  IF p = it \/ p = NULL \/ k >= MaxListLen THEN k
  ELSE IterSteps(l, ds_list_iter_next(l, p), it, k + 1)

\* The position of the iterator in the list, counted from 0.
IterIndex(it) == IterSteps(list, ds_list_iter_begin(TRUE, list), it, 0)

\* A list call that returns a status: r is [ret, l]; done is the reference
\* after a call that succeeds.
ListCalled(name, r, done) ==
  /\ list' = r.l
  /\ liter' = NULL
  /\ cref' = IF r.ret = "DS_OK" THEN done ELSE cref
  /\ cop' = name
  /\ cst' = r.ret
  /\ cret' = NULL
  /\ NotList

\* A list call that removes and returns an element: r is [ret, l].
ListPopped(name, r, done) ==
  /\ list' = r.l
  /\ liter' = NULL
  /\ cref' = done
  /\ cop' = name
  /\ cst' = "-"
  /\ cret' = r.ret
  /\ NotList

ListPushFront(t, element) ==
  /\ Len(cref) < MaxListLen
  /\ ListCalled("list_push_front", ds_list_push_front(t, list, element),
                <<element>> \o cref)

ListPushBack(t, element) ==
  /\ Len(cref) < MaxListLen
  /\ ListCalled("list_push_back", ds_list_push_back(t, list, element),
                Append(cref, element))

ListInsert(t, it, element) ==
  /\ Len(cref) < MaxListLen
  /\ ListCalled("list_insert", ds_list_insert(t, list, it, element),
                SeqInsert(cref, IterIndex(it), element))

ListPopFront(t) ==
  ListPopped("list_pop_front", ds_list_pop_front(t, list), IF t THEN Rest(cref) ELSE cref)

ListPopBack(t) ==
  ListPopped("list_pop_back", ds_list_pop_back(t, list), IF t THEN Front(cref) ELSE cref)

ListRemove(t, it, free_func) ==
  LET r == ds_list_remove(t, list, it, free_func) IN
  /\ list' = r.l
  /\ liter' = r.ret
  /\ cref' = IF t /\ it # NULL THEN SeqRemove(cref, IterIndex(it)) ELSE cref
  /\ cop' = "list_remove"
  /\ cst' = "-"
  /\ cret' = r.freed
  /\ NotList

InitStep == run = NullRef

Init == InitBst /\ InitTrav /\ InitCont /\ InitStep

\* The calls the caller makes. A call on a NULL bst returns before it reads its
\* other arguments, so it is made with a few of them only.
InsertCalls ==
  ({TRUE} \X (Payloads \cup {NULL}) \X BOOLEAN) \cup ({FALSE} \X {NULL, 1} \X {TRUE})
RemoveCalls ==
  ({TRUE} \X (Probes \cup {NULL}) \X BOOLEAN) \cup ({FALSE} \X {NULL, 1} \X {FALSE})
SearchCalls ==
  ({TRUE} \X (Probes \cup {NULL})) \cup ({FALSE} \X {1})

Next ==
  \/ \E c \in InsertCalls : Insert(c[1], c[2], c[3])
  \/ \E c \in RemoveCalls : Remove(c[1], c[2], c[3])
  \/ \E c \in SearchCalls : Search(c[1], c[2])
  \/ \E b \in BOOLEAN : Min(b)
  \/ \E b \in BOOLEAN : Max(b)

Spec == Init /\ [][Next]_vars

\* The calls the caller of the binary tree makes. A call on a NULL tree
\* returns before it reads its other arguments.
NextData == IF btree_malloc(Btree) = NULL THEN 1 ELSE btree_malloc(Btree)
Parents == Unit(Btree, tree.root)
AttachCalls ==
  ({TRUE} \X (Parents \cup {NULL}) \X {held, NULL}) \cup {<<FALSE, NULL, held>>}
DetachCalls == ({TRUE} \X (Parents \cup {NULL})) \cup {<<FALSE, NULL>>}
TraverseCalls == {<<TRUE, TRUE>>, <<TRUE, FALSE>>, <<FALSE, TRUE>>}

ReleaseCalls == {<<TRUE, TRUE>>, <<TRUE, FALSE>>, <<FALSE, TRUE>>}

NextTrav ==
  \/ /\ TreeLive
     /\ \/ /\ Cardinality(balloc) < MaxTreeNodes
           /\ \E data \in {NULL, NextData} : NodeCreate(data)
        \/ \E c \in {<<TRUE, held>>, <<TRUE, NULL>>, <<FALSE, held>>} : SetRoot(c[1], c[2])
        \/ \E c \in AttachCalls : AttachNodeLeft(c[1], c[2], c[3])
        \/ \E c \in AttachCalls : AttachNodeRight(c[1], c[2], c[3])
        \/ \E c \in DetachCalls : DetachLeft(c[1], c[2])
        \/ \E c \in DetachCalls : DetachRight(c[1], c[2])
        \/ \E c \in TraverseCalls : TraversePreorder(c[1], c[2])
        \/ \E c \in TraverseCalls : TraverseInorder(c[1], c[2])
        \/ \E c \in TraverseCalls : TraversePostorder(c[1], c[2])
        \/ \E c \in TraverseCalls : TraversePreorderIterative(c[1], c[2])
        \/ \E c \in TraverseCalls : TraverseInorderIterative(c[1], c[2])
        \/ \E c \in TraverseCalls : TraversePostorderIterative(c[1], c[2])
        \/ \E c \in TraverseCalls : TraverseLevelorder(c[1], c[2])
        \/ \E t \in BOOLEAN : Height(t)
        \/ \E c \in ReleaseCalls : Clear(c[1], c[2])
        \/ \E c \in ReleaseCalls : Destroy(c[1], c[2])
  \/ Create

SpecTrav == Init /\ [][NextTrav]_vars

\* The caller that only builds: it creates a node, links it into a free slot
\* of the tree and traverses (build_sample_tree and what follows it).
NextBuild ==
  \/ NodeCreate(NextData)
  \/ SetRoot(TRUE, held)
  \/ \E parent \in Parents : AttachNodeLeft(TRUE, parent, held)
  \/ \E parent \in Parents : AttachNodeRight(TRUE, parent, held)
  \/ TraversePreorder(TRUE, TRUE)
  \/ TraverseInorder(TRUE, TRUE)
  \/ TraversePostorder(TRUE, TRUE)
  \/ TraverseLevelorder(TRUE, TRUE)
  \/ Height(TRUE)

SpecBuild == Init /\ [][NextBuild]_vars

\* The caller that builds a tree, detaches from it and follows one call at a
\* time through its loop. The calls are made on a tree with a root and with a
\* visitor; ds_btree_clear is also made with no block left for the growth of
\* its stack.
RunCalls ==
  (StepFns \X {FALSE} \X {FALSE}) \cup ({"clear"} \X BOOLEAN \X BOOLEAN)
    \cup ({"destroy"} \X BOOLEAN \X {FALSE})

NextSteps ==
  \/ /\ run = NullRef
     /\ TreeLive
     /\ \/ /\ Cardinality(balloc) < MaxStepNodes
           /\ NodeCreate(NextData)
        \/ SetRoot(TRUE, held)
        \/ \E parent \in Parents : AttachNodeLeft(TRUE, parent, held)
        \/ \E parent \in Parents : AttachNodeRight(TRUE, parent, held)
        \/ \E parent \in Parents : DetachLeft(TRUE, parent)
        \/ \E parent \in Parents : DetachRight(TRUE, parent)
        \/ \E c \in RunCalls : RunBegin(c[1], c[2], c[3])
  \/ run = NullRef /\ Create
  \/ RunStep
  \/ DestroyTurn
  \/ RunEnd
  \/ RunReturn

SpecSteps == Init /\ [][NextSteps]_vars

\* The caller that builds two trees and grafts the second into the first
\* (test_btree_attach_tree_left_right_transfer_ownership).
SubParents == Unit(SubBtree, sub.root)
GraftCalls ==
  ({TRUE} \X (Parents \cup {NULL}) \X BOOLEAN) \cup {<<FALSE, NULL, TRUE>>}

NextGraft ==
  \/ /\ Cardinality(balloc) < MaxGraftNodes
     /\ NodeCreate(NextData)
  \/ SetRoot(TRUE, held)
  \/ \E parent \in Parents : AttachNodeLeft(TRUE, parent, held)
  \/ \E parent \in Parents : AttachNodeRight(TRUE, parent, held)
  \/ SubSetRoot(held)
  \/ \E parent \in SubParents : SubAttachNodeLeft(parent, held)
  \/ \E parent \in SubParents : SubAttachNodeRight(parent, held)
  \/ \E parent \in SubParents : SubDetachLeft(parent)
  \/ \E c \in GraftCalls : AttachTreeLeft(c[1], c[2], c[3])
  \/ \E c \in GraftCalls : AttachTreeRight(c[1], c[2], c[3])

SpecGraft == Init /\ [][NextGraft]_vars

\* The caller that owns what it passes: it builds two trees from the nodes it
\* holds, grafts the second into the first and detaches from both.
NextOwn ==
  \/ /\ Cardinality(balloc) < MaxGraftNodes
     /\ NodeCreate(NextData)
  \/ SetRoot(TRUE, held)
  \/ \E parent \in Parents : AttachNodeLeft(TRUE, parent, held)
  \/ \E parent \in Parents : AttachNodeRight(TRUE, parent, held)
  \/ SubSetRoot(held)
  \/ \E parent \in SubParents : SubAttachNodeLeft(parent, held)
  \/ \E parent \in SubParents : SubAttachNodeRight(parent, held)
  \/ \E parent \in SubParents : SubDetachLeft(parent)
  \/ \E parent \in Parents : DetachLeft(TRUE, parent)
  \/ \E parent \in Parents : DetachRight(TRUE, parent)
  \/ \E parent \in Parents : AttachTreeLeft(TRUE, parent, TRUE)
  \/ \E parent \in Parents : AttachTreeRight(TRUE, parent, TRUE)

SpecOwn == Init /\ [][NextOwn]_vars

\* A node without children.
IsLeaf(n) == n # NULL /\ bnode[n].left = NULL /\ bnode[n].right = NULL

\* The caller that keeps the count right: set_root and attach_node are given
\* a leaf, detach is applied to a leaf child, a whole tree is moved with
\* attach_tree, and a parent is a node of the tree it is passed with.
NextContract ==
  \/ /\ Cardinality(balloc) < MaxGraftNodes
     /\ NodeCreate(NextData)
  \/ (held = NULL \/ IsLeaf(held)) /\ SetRoot(TRUE, held)
  \/ \E parent \in Parents :
       (held = NULL \/ IsLeaf(held)) /\ AttachNodeLeft(TRUE, parent, held)
  \/ \E parent \in Parents :
       (held = NULL \/ IsLeaf(held)) /\ AttachNodeRight(TRUE, parent, held)
  \/ (held = NULL \/ IsLeaf(held)) /\ SubSetRoot(held)
  \/ \E parent \in SubParents :
       (held = NULL \/ IsLeaf(held)) /\ SubAttachNodeLeft(parent, held)
  \/ \E parent \in SubParents :
       (held = NULL \/ IsLeaf(held)) /\ SubAttachNodeRight(parent, held)
  \/ \E parent \in SubParents : IsLeaf(bnode[parent].left) /\ SubDetachLeft(parent)
  \/ \E parent \in Parents : IsLeaf(bnode[parent].left) /\ DetachLeft(TRUE, parent)
  \/ \E parent \in Parents : IsLeaf(bnode[parent].right) /\ DetachRight(TRUE, parent)
  \/ \E parent \in Parents : AttachTreeLeft(TRUE, parent, TRUE)
  \/ \E parent \in Parents : AttachTreeRight(TRUE, parent, TRUE)
  \/ \E free_func \in BOOLEAN : Clear(TRUE, free_func)

SpecContract == Init /\ [][NextContract]_vars

\* The callers of the deque, of the stack and of the queue; a push is tried
\* with a NULL element as well.
NextDeque ==
  \/ \E element \in Elems \cup {NULL} : DequePushBack(element)
  \/ \E element \in Elems \cup {NULL} : DequePushFront(element)
  \/ DequePopBack
  \/ DequePopFront
  \/ DequeFront
  \/ DequeBack

SpecDeque == Init /\ [][NextDeque]_vars

NextStack ==
  \/ \E element \in Elems \cup {NULL} : StackPush(element)
  \/ StackPop
  \/ StackTop

SpecStack == Init /\ [][NextStack]_vars

NextQueue ==
  \/ \E element \in Elems \cup {NULL} : QueuePush(element)
  \/ QueuePop
  \/ QueueFront

SpecQueue == Init /\ [][NextQueue]_vars

\* The caller of the vector (test_vector.c). A call on a NULL vector returns
\* before it reads its other arguments.
VecElems == Elems \cup {NULL}
ReserveCalls == ({TRUE} \X ReserveCaps) \cup {<<FALSE, 2 * MaxVecLen>>}
PushBackCalls == ({TRUE} \X VecElems) \cup {<<FALSE, 1>>}
VecInsertCalls == ({TRUE} \X VecIndexes \X VecElems) \cup {<<FALSE, 0, 1>>}
SetCalls == ({TRUE} \X VecIndexes \X VecElems \X BOOLEAN) \cup {<<FALSE, 0, 1, FALSE>>}
VecRemoveCalls == ({TRUE} \X VecIndexes \X BOOLEAN) \cup {<<FALSE, 0, FALSE>>}

NextVector ==
  \/ \E c \in ReserveCalls : VectorReserve(c[1], c[2])
  \/ \E c \in PushBackCalls : VectorPushBack(c[1], c[2])
  \/ \E c \in VecInsertCalls : VectorInsert(c[1], c[2], c[3])
  \/ \E c \in SetCalls : VectorSet(c[1], c[2], c[3], c[4])
  \/ \E c \in VecRemoveCalls : VectorRemove(c[1], c[2], c[3])
  \/ \E t \in BOOLEAN : VectorPopBack(t)
  \/ \E c \in BOOLEAN \X VecIndexes : VectorGet(c[1], c[2])

SpecVector == Init /\ [][NextVector]_vars

\* The caller of the heap (test_heap.c): a min-heap or a max-heap.
NextHeap ==
  \/ \E compare \in {"int_compare_min", "int_compare_max"} : HeapCreate(compare)
  \/ \E c \in ({TRUE} \X (HeapVals \cup {NULL})) \cup {<<FALSE, 1>>} : HeapPush(c[1], c[2])
  \/ \E t \in BOOLEAN : HeapPop(t)
  \/ \E t \in BOOLEAN : HeapTop(t)

SpecHeap == Init /\ [][NextHeap]_vars

\* The caller of the list (test_list.c). An iterator it passes is NULL or
\* stands at an element of the list (it is reached from ds_list_iter_begin
\* by ds_list_iter_next).
ListIters == list.alloc \cup {NULL}
ListInsertCalls == ({TRUE} \X ListIters \X (Elems \cup {NULL})) \cup {<<FALSE, NULL, 1>>}
ListRemoveCalls == ({TRUE} \X ListIters \X BOOLEAN) \cup {<<FALSE, NULL, FALSE>>}
ListPushCalls == ({TRUE} \X (Elems \cup {NULL})) \cup {<<FALSE, 1>>}

NextList ==
  \/ \E c \in ListPushCalls : ListPushFront(c[1], c[2])
  \/ \E c \in ListPushCalls : ListPushBack(c[1], c[2])
  \/ \E c \in ListInsertCalls : ListInsert(c[1], c[2], c[3])
  \/ \E c \in ListRemoveCalls : ListRemove(c[1], c[2], c[3])
  \/ \E t \in BOOLEAN : ListPopFront(t)
  \/ \E t \in BOOLEAN : ListPopBack(t)

SpecList == Init /\ [][NextList]_vars

\* ------------------------------------------------- what the claims speak of
Children(s, S) ==
  ({s.node[n].left : n \in S} \cup {s.node[n].right : n \in S}) \ {NULL}

RECURSIVE Closure(_, _)
Closure(s, S) ==
  LET T == S \cup Children(s, S) IN IF T = S THEN S ELSE Closure(s, T)

\* The nodes reachable from n over left and right links.
Reach(s, n) == IF n = NULL THEN {} ELSE Closure(s, {n})

\* The payloads stored in the tree.
Stored(s) == {s.node[n].data : n \in Reach(s, s.root)}

\* The keys of the reference presence-set.
PresentKeys == {k \in Keys : present[k] # NULL}

StrictlyIncreasing(sq) ==
  \A i \in 1..(Len(sq) - 1) : int_compare(sq[i], sq[i + 1]) < 0

TreeUnchanged == UNCHANGED <<root, size, node, alloc>>

\* C1: after any sequence of inserts and removes the in-order traversal is
\* strictly increasing under the comparator, and for every node all payloads of
\* its left subtree compare less and all of its right subtree greater.
C1_InorderStrictlyIncreasing ==
  /\ StrictlyIncreasing(ds_bst_traverse_inorder(Bst))
  /\ \A n \in Reach(Bst, root) :
       /\ \A x \in Reach(Bst, node[n].left) : int_compare(node[x].data, node[n].data) < 0
       /\ \A x \in Reach(Bst, node[n].right) : int_compare(node[x].data, node[n].data) > 0

\* C1 witness: a node with two children, its predecessor deeper than its left
\* child, has just been removed from a tree of five.
C1_Witness ==
  op = "remove" /\ ret = "DS_OK" /\ rmcase \in {"two_deep", "two_deep_l"} /\ size = 4

C2_SizeState ==
  /\ ds_bst_size(TRUE, Bst) = Cardinality(PresentKeys)
  /\ ds_bst_size(TRUE, Bst) = Cardinality(Reach(Bst, root))

C2_SizeStep ==
  op' \in {"insert", "remove"} =>
    size' = size + (IF ret' # "DS_OK" THEN 0 ELSE IF op' = "insert" THEN 1 ELSE -1)

\* C2: the size always equals the number of keys of the reference presence-set
\* and the number of nodes reachable from the root; a successful insert adds 1,
\* a successful remove subtracts 1, a failing call leaves it unchanged.
C2_SizeExact == []C2_SizeState /\ [][C2_SizeStep]_vars

\* C2 witness: a failing remove on a tree of three nodes.
C2_Witness ==
  op = "remove" /\ ret = "DS_ERR_NOT_FOUND" /\ size = 3 /\ Cardinality(PresentKeys) = 3

C3_SearchState ==
  /\ \A k \in Probes : ds_bst_search(TRUE, Bst, k) = present[KeyOf(k)]
  /\ ds_bst_search(TRUE, Bst, NULL) = NULL
  /\ op = "search" /\ ~onNull => out = IF arg = NULL THEN NULL ELSE present[KeyOf(arg)]

C3_SearchStep == op' = "search" => TreeUnchanged

\* C3: search returns the stored payload comparing equal to the key exactly when
\* that key was inserted and not removed since, absent otherwise (other keys,
\* empty tree, absent key), and never changes the tree.
C3_SearchFindsPresent == []C3_SearchState /\ [][C3_SearchStep]_vars

\* C3 witness: a search with the probe for key 1 returned the other payload
\* object holding key 1, which sits below the root.
C3_Witness ==
  op = "search" /\ arg = 1 /\ out = MaxPayload /\ size >= 3 /\ node[root].data # out

\* Whether a stored payload compares equal to key, and that payload.
HasKey(s, key) == \E d \in Stored(s) : int_compare(key, d) = 0
Matched(s, key) == CHOOSE d \in Stored(s) : int_compare(key, d) = 0

\* The reachable node whose payload compares equal to key.
NodeOf(s, key) ==
  CHOOSE n \in Reach(s, s.root) : int_compare(key, s.node[n].data) = 0

\* The slot (the root's, or a reachable node's left or right) that holds n.
Slots(s) ==
  {RootLink} \cup {LeftOf(m) : m \in Reach(s, s.root)} \cup {RightOf(m) : m \in Reach(s, s.root)}
SlotOf(s, n) == CHOOSE l \in Slots(s) : Load(s, l) = n

\* The last node on the chain of right links from n.
RECURSIVE Rightmost(_, _)
Rightmost(s, n) == IF s.node[n].right = NULL THEN n ELSE Rightmost(s, s.node[n].right)

\* A remove call about to run on a non-NULL bst with a key some stored payload equals.
RemovesPresent == op' = "remove" /\ ~onNull' /\ arg' # NULL /\ HasKey(Bst, arg')

C4_Step ==
  RemovesPresent =>
    /\ ret' = "DS_OK"
    /\ freed' = (IF hasFree' THEN <<Matched(Bst, arg')>> ELSE <<>>)
    /\ Stored(Bst') = Stored(Bst) \ {Matched(Bst, arg')}
    /\ \A d \in Stored(Bst') : ds_bst_search(TRUE, Bst', d) = d
    /\ ds_bst_search(TRUE, Bst', arg') = NULL
    /\ \A fn \in BOOLEAN : ds_bst_remove(TRUE, Bst', arg', fn).ret = "DS_ERR_NOT_FOUND"

\* C4: removing a present key returns DS_OK, invokes the destructor (when given)
\* exactly once, on the matched node's payload; exactly that payload leaves the
\* tree and every other stored payload is still found by search; removing the
\* same key again returns DS_ERR_NOT_FOUND.
C4_RemovePresentKey == [][C4_Step]_vars

\* C4 witness: a two-children node was removed with a destructor, which received
\* its payload; three payloads remain.
C4_Witness ==
  /\ op = "remove" /\ ret = "DS_OK" /\ hasFree /\ rmcase \in TwoChildrenCases
  /\ Len(freed) = 1 /\ KeyOf(freed[1]) = KeyOf(arg) /\ size = 3

C5_Step ==
  (op' = "insert" /\ ~onNull' /\ arg' # NULL /\ HasKey(Bst, arg')) =>
    /\ ret' = "DS_ERR_EXIST"
    /\ TreeUnchanged
    /\ Stored(Bst') = Stored(Bst)
    /\ ds_bst_search(TRUE, Bst', arg') = Matched(Bst, arg')

\* C5: inserting a payload whose key compares equal to a stored payload returns
\* DS_ERR_EXIST, changes neither the size nor any link, stores the rejected
\* payload nowhere, and search still returns the payload stored before.
C5_DuplicateRejected == [][C5_Step]_vars

\* C5 witness: the second object holding key 1 was rejected while the first one
\* is stored in a tree of three.
C5_Witness ==
  /\ op = "insert" /\ ret = "DS_ERR_EXIST" /\ arg = MaxPayload
  /\ arg \notin Stored(Bst) /\ 1 \in Stored(Bst) /\ size = 3

C6_Step ==
  op' = "remove" =>
    IF onNull' THEN ret' = "DS_ERR_NULL"
    ELSE IF root = NULL THEN ret' = "DS_ERR_NOT_FOUND"
    ELSE IF arg' = NULL THEN ret' = "DS_ERR_ARG"
    ELSE IF ~HasKey(Bst, arg') THEN ret' = "DS_ERR_NOT_FOUND"
    ELSE ret' \notin {"DS_ERR_NULL", "DS_ERR_ARG", "DS_ERR_NOT_FOUND"}

\* C6: remove checks in a fixed order: NULL bst gives DS_ERR_NULL; else an empty
\* tree gives DS_ERR_NOT_FOUND even for an absent key; else an absent key gives
\* DS_ERR_ARG; else a key matching no node gives DS_ERR_NOT_FOUND.
C6_RemoveCheckOrder == [][C6_Step]_vars

\* C6 witness: remove with an absent key on an empty tree answered DS_ERR_NOT_FOUND.
C6_Witness ==
  op = "remove" /\ ~onNull /\ arg = NULL /\ root = NULL /\ ret = "DS_ERR_NOT_FOUND"

C7_Step ==
  (RemovesPresent /\ node[NodeOf(Bst, arg')].left # NULL
                  /\ node[NodeOf(Bst, arg')].right # NULL) =>
    LET s == Bst
        t == Bst'
        curr == NodeOf(s, arg')
        link == SlotOf(s, curr)
        pred == Rightmost(s, s.node[curr].left)
        pred_link == SlotOf(s, pred)
        touched == {curr, pred} \cup {link.n, pred_link.n}
    IN /\ s.node[pred].right = NULL
       /\ Load(t, link) = pred
       /\ t.node[pred].right = s.node[curr].right
       /\ t.node[pred].data = s.node[pred].data
       /\ IF pred = s.node[curr].left
          THEN t.node[pred].left = s.node[pred].left
          ELSE /\ t.node[pred].left = s.node[curr].left
               /\ pred_link.slot = "right"
               /\ Load(t, pred_link) = s.node[pred].left
       /\ \A n \in Reach(s, s.root) \ touched : t.node[n] = s.node[n]
       /\ Reach(t, t.root) = Reach(s, s.root) \ {curr}

\* C7: removing a node with two children puts its in-order predecessor (the
\* rightmost node of its left subtree, which has no right child) into its slot;
\* the predecessor's left child (if any) takes the predecessor's former place;
\* the predecessor receives the removed node's right subtree and the rest of its
\* left subtree; also when the predecessor is the removed node's left child.
C7_PredecessorSplice == [][C7_Step]_vars

\* C7 witness: a two-children node was removed whose predecessor lay deeper than
\* its left child and had a left child of its own.
C7_Witness == op = "remove" /\ ret = "DS_OK" /\ rmcase = "two_deep_l"

C8_Step ==
  (op' \in {"insert", "remove"} /\ ret' # "DS_OK") =>
    TreeUnchanged /\ Stored(Bst') = Stored(Bst)

\* C8: an insert or remove that returns a status other than DS_OK leaves the
\* root, every link, the stored payloads and the count as they were.
C8_FailureChangesNothing == [][C8_Step]_vars

\* C8 witness: an insert below the root failed for lack of memory.
C8_Witness == op = "insert" /\ ret = "DS_ERR_MEM" /\ size >= 2

IsLeast(d, S) == d \in S /\ \A e \in S : int_compare(d, e) <= 0
IsGreatest(d, S) == d \in S /\ \A e \in S : int_compare(d, e) >= 0

\* C9: min returns the payload comparing least among the stored ones and max the
\* one comparing greatest; both return absent exactly when the tree is empty.
C9_MinMax ==
  LET S == Stored(Bst)
      mn == ds_bst_min(TRUE, Bst)
      mx == ds_bst_max(TRUE, Bst)
  IN /\ (mn = NULL) <=> (root = NULL)
     /\ (mx = NULL) <=> (root = NULL)
     /\ root # NULL => IsLeast(mn, S) /\ IsGreatest(mx, S)
     /\ (op = "min" /\ ~onNull /\ root # NULL) => IsLeast(out, S)
     /\ (op = "max" /\ ~onNull /\ root # NULL) => IsGreatest(out, S)
     /\ (op \in {"min", "max"} /\ root = NULL) => out = NULL

\* C9 witness: min on a tree of at least three nodes returned a payload that is
\* not the root's.
C9_Witness ==
  op = "min" /\ ~onNull /\ size >= 3 /\ out # NULL /\ out # node[root].data

\* C10: whenever an iterative preorder, inorder or postorder traversal has run
\* on the tree, its visitor has received exactly the sequence of payloads
\* that the recursive traversal of the same kind hands out on that tree.
C10_IterativeMatchesRecursive ==
  /\ trav = "preorder_iterative" =>
       visited = ds_btree_traverse_preorder(TRUE, Btree, TRUE)
  /\ trav = "inorder_iterative" =>
       visited = ds_btree_traverse_inorder(TRUE, Btree, TRUE)
  /\ trav = "postorder_iterative" =>
       visited = ds_btree_traverse_postorder(TRUE, Btree, TRUE)

\* ------------------------------------- the binary tree the claims speak of
\* The nodes of the tree, and those under the left and the right link of n.
TreeNodes == Unit(Btree, tree.root)
LeftSub(n) == Unit(Btree, bnode[n].left)
RightSub(n) == Unit(Btree, bnode[n].right)

\* The visitor has received the payload of every node of the tree once, and
\* nothing else.
VisitsEachOnce ==
  /\ Len(visited) = Cardinality(TreeNodes)
  /\ \A n \in TreeNodes :
       Cardinality({i \in 1..Len(visited) : visited[i] = bnode[n].data}) = 1

\* The visitor has received the payload of a before that of b.
Pos(n) == CHOOSE i \in 1..Len(visited) : visited[i] = bnode[n].data
Before(a, b) == Pos(a) < Pos(b)

LeftBeforeRight ==
  \A n \in TreeNodes : \A l \in LeftSub(n) : \A r \in RightSub(n) : Before(l, r)

\* The sample tree: root=1, left=2(left=4,right=5), right=3(right=6).
IsSampleTree ==
  /\ tree.root = 1
  /\ bnode[1] = [data |-> 1, left |-> 2, right |-> 3]
  /\ bnode[2] = [data |-> 2, left |-> 4, right |-> 5]
  /\ bnode[3] = [data |-> 3, left |-> NULL, right |-> 6]
  /\ \A n \in {4, 5, 6} : bnode[n] = [data |-> n, left |-> NULL, right |-> NULL]

\* C11: after a preorder, inorder or postorder traversal the visitor has
\* received every node of the tree exactly once; in preorder a node comes
\* before its left subtree and the left subtree before the right one, in
\* inorder the left subtree comes before the node and the node before the
\* right subtree, in postorder the left subtree comes before the right one and
\* both before the node; on the sample tree the three sequences are
\* [1,2,4,5,3,6], [4,2,5,1,3,6] and [4,5,2,6,3,1].
C11_DefiningOrders ==
  /\ trav = "preorder" =>
       /\ VisitsEachOnce
       /\ LeftBeforeRight
       /\ \A n \in TreeNodes : \A m \in LeftSub(n) \cup RightSub(n) : Before(n, m)
       /\ IsSampleTree => visited = <<1, 2, 4, 5, 3, 6>>
  /\ trav = "inorder" =>
       /\ VisitsEachOnce
       /\ \A n \in TreeNodes :
            /\ \A l \in LeftSub(n) : Before(l, n)
            /\ \A r \in RightSub(n) : Before(n, r)
       /\ IsSampleTree => visited = <<4, 2, 5, 1, 3, 6>>
  /\ trav = "postorder" =>
       /\ VisitsEachOnce
       /\ LeftBeforeRight
       /\ \A n \in TreeNodes : \A m \in LeftSub(n) \cup RightSub(n) : Before(m, n)
       /\ IsSampleTree => visited = <<4, 5, 2, 6, 3, 1>>

C11_Witness ==
  /\ IsSampleTree
  /\ trav = "postorder"
  /\ visited = <<4, 5, 2, 6, 3, 1>>

\* The number of nodes on the path from r down to n (0: n is not under r).
RECURSIVE DepthFrom(_, _)
DepthFrom(r, n) ==
  IF r = NULL THEN 0
  ELSE IF r = n THEN 1
  ELSE LET l == DepthFrom(bnode[r].left, n)
           rr == DepthFrom(bnode[r].right, n)
       IN IF l > 0 THEN l + 1 ELSE IF rr > 0 THEN rr + 1 ELSE 0

Depth(n) == DepthFrom(tree.root, n)
ChildrenOf(n) == {bnode[n].left, bnode[n].right} \ {NULL}

\* C12: after a level-order traversal the visitor has received every node of
\* the tree exactly once, a node of lesser depth before one of greater depth,
\* a left child before the right child of the same parent and the children of
\* a parent visited earlier before those of a parent visited later; on the
\* sample tree the sequence is [1,2,3,4,5,6].
C12_LevelOrder ==
  trav = "levelorder" =>
    /\ VisitsEachOnce
    /\ \A a, b \in TreeNodes : Depth(a) < Depth(b) => Before(a, b)
    /\ \A n \in TreeNodes :
         bnode[n].left # NULL /\ bnode[n].right # NULL =>
           Before(bnode[n].left, bnode[n].right)
    /\ \A p, q \in TreeNodes :
         Before(p, q) => \A c \in ChildrenOf(p) : \A d \in ChildrenOf(q) : Before(c, d)
    /\ IsSampleTree => visited = <<1, 2, 3, 4, 5, 6>>

\* The depths of the nodes of the tree.
Depths == {Depth(n) : n \in TreeNodes}

Count(sq, ev, x) ==
  Cardinality({i \in 1..Len(sq) : sq[i] = [ev |-> ev, x |-> x]})

\* C14: a ds_btree_clear that is given the tree and a destructor calls the
\* destructor exactly once on the payload of every node reachable from the
\* root and frees every such node exactly once, does nothing else, and leaves
\* the tree with count 0 and no root, so that its height is 0 and a traversal
\* visits nothing.
C14_Step ==
  (trav' = "clear" /\ tfn') =>
    /\ \A n \in TreeNodes :
         /\ Count(events', "dtor", bnode[n].data) = 1
         /\ Count(events', "free", n) = 1
    /\ Len(events') = 2 * Cardinality(TreeNodes)
    /\ balloc' = balloc \ TreeNodes
    /\ tree' = [root |-> NULL, size |-> 0]
    /\ ds_btree_height(TRUE, Btree') = 0
    /\ ds_btree_traverse_preorder(TRUE, Btree', TRUE) = <<>>

C14_ClearFreesEachOnce == [][C14_Step]_vars

\* Where the event [ev, x] stands in the event sequence sq.
Index(sq, ev, x) == CHOOSE i \in 1..Len(sq) : sq[i] = [ev |-> ev, x |-> x]

\* C15: a ds_btree_destroy that is given the tree pushes every node reachable
\* from the root onto stack_store exactly once and then frees every such node
\* exactly once; with a destructor it calls the destructor exactly once on
\* every payload, before the node that holds it is freed, and without one it
\* calls none.
C15_Step ==
  trav' = "destroy" =>
    /\ \A n \in TreeNodes :
         /\ Count(events', "push", n) = 1
         /\ Count(events', "free", n) = 1
         /\ Count(events', "dtor", bnode[n].data) = (IF tfn' THEN 1 ELSE 0)
         /\ tfn' => Index(events', "dtor", bnode[n].data) < Index(events', "free", n)
         /\ \A m \in TreeNodes : Index(events', "push", n) < Index(events', "free", m)
    /\ Len(events') = (IF tfn' THEN 3 ELSE 2) * Cardinality(TreeNodes) + 1
    /\ balloc' = balloc \ TreeNodes

C15_DestroyFreesEachOnce == [][C15_Step]_vars

\* What a single-node attach does, by the claim: t is FALSE for an absent
\* tree, argsOk says the node (and the parent) are given, occupied that the
\* target slot holds a node, newTree and newNodes are the tree and the nodes
\* with the node linked into the slot and the count one higher.
AttachOutcome(t, argsOk, occupied, newTree, newNodes) ==
  /\ tret' = (IF ~t THEN "DS_ERR_NULL"
              ELSE IF ~argsOk THEN "DS_ERR_ARG"
              ELSE IF occupied THEN "DS_ERR_EXIST"
              ELSE "DS_OK")
  /\ IF t /\ argsOk /\ ~occupied
       THEN tree' = newTree /\ bnode' = newNodes
       ELSE tree' = tree /\ bnode' = bnode
  /\ balloc' = balloc

OneMore == (tree.size + 1) % SizeMod
LeftChild(parent) == IF parent = NULL THEN NULL ELSE bnode[parent].left
RightChild(parent) == IF parent = NULL THEN NULL ELSE bnode[parent].right
SetRootCalls == BOOLEAN \X {held, NULL}

\* C18: ds_btree_set_root, ds_btree_attach_node_left and
\* ds_btree_attach_node_right return DS_ERR_NULL for an absent tree,
\* DS_ERR_ARG for an absent node or parent and DS_ERR_EXIST when the root,
\* the parent's left child or the parent's right child is already there, and
\* leave the tree as it was; otherwise they return DS_OK, the node stands in
\* that slot, no other link has changed and the count (a size_t) is one higher.
C18_Step ==
  /\ \A c \in SetRootCalls :
       SetRoot(c[1], c[2]) =>
         AttachOutcome(c[1], c[2] # NULL, tree.root # NULL,
                       [root |-> c[2], size |-> OneMore], bnode)
  /\ \A c \in AttachCalls :
       AttachNodeLeft(c[1], c[2], c[3]) =>
         AttachOutcome(c[1], c[2] # NULL /\ c[3] # NULL, LeftChild(c[2]) # NULL,
                       [root |-> tree.root, size |-> OneMore],
                       [bnode EXCEPT ![c[2]].left = c[3]])
  /\ \A c \in AttachCalls :
       AttachNodeRight(c[1], c[2], c[3]) =>
         AttachOutcome(c[1], c[2] # NULL /\ c[3] # NULL, RightChild(c[2]) # NULL,
                       [root |-> tree.root, size |-> OneMore],
                       [bnode EXCEPT ![c[2]].right = c[3]])

C18_SingleNodeAttach == [][C18_Step]_vars

\* A node was refused for the occupied right slot of the root and is still
\* the caller's; the tree holds the root and its right child.
C18_Witness ==
  /\ tret = "DS_ERR_EXIST"
  /\ held # NULL
  /\ tree.root # NULL
  /\ bnode[tree.root].left = NULL
  /\ bnode[tree.root].right # NULL
  /\ bnode[tree.root].right # held
  /\ tree.size = 2

\* The count after one decrement of a size_t.
OneLess == IF tree.size = 0 THEN SIZE_MAX ELSE tree.size - 1

\* What a detach of the child in a slot does, by the claim: the slot is empty
\* afterwards, the caller holds the former child, the nodes beneath it are as
\* they were, no block is freed and the count is one lower.
DetachOutcome(parent, child, newNodes) ==
  /\ held' = child
  /\ bnode' = newNodes
  /\ \A m \in Unit(Btree, child) : m \in balloc' /\ bnode'[m] = bnode[m]
  /\ Unit(Btree', held') = Unit(Btree, child)
  /\ balloc' = balloc
  /\ tree'.root = tree.root
  /\ tree'.size = OneLess

\* C19: ds_btree_detach_left and ds_btree_detach_right, given a tree and a
\* parent, empty the parent's left or right slot and return the former child
\* with its subtree as it was; no node is freed and the count (a size_t) is
\* one lower after every such call, whatever the slot held.
C19_Step ==
  /\ \A c \in DetachCalls :
       (DetachLeft(c[1], c[2]) /\ c[1] /\ c[2] # NULL) =>
         /\ LeftChild(c[2])' = NULL
         /\ DetachOutcome(c[2], LeftChild(c[2]), [bnode EXCEPT ![c[2]].left = NULL])
  /\ \A c \in DetachCalls :
       (DetachRight(c[1], c[2]) /\ c[1] /\ c[2] # NULL) =>
         /\ RightChild(c[2])' = NULL
         /\ DetachOutcome(c[2], RightChild(c[2]), [bnode EXCEPT ![c[2]].right = NULL])

C19_DetachCountsOne == [][C19_Step]_vars

\* A unit of two nodes was detached from a tree of three: the caller holds
\* it, the root is what is left of the tree and the count is 2.
C19_Witness ==
  /\ tret = "node"
  /\ held # NULL
  /\ Cardinality(Unit(Btree, held)) = 2
  /\ tree.root # NULL
  /\ Unit(Btree, tree.root) = {tree.root}
  /\ tree.size = 2

\* C20: a ds_btree_set_root or ds_btree_attach_node_left/right that returns
\* a failure status, and a ds_btree_detach_left/right that returns no node,
\* leave the root, every link and the count as they were.
C20_Step ==
  /\ \A c \in SetRootCalls :
       (SetRoot(c[1], c[2]) /\ tret' # "DS_OK") => (tree' = tree /\ bnode' = bnode)
  /\ \A c \in AttachCalls :
       ((AttachNodeLeft(c[1], c[2], c[3]) \/ AttachNodeRight(c[1], c[2], c[3]))
          /\ tret' # "DS_OK") => (tree' = tree /\ bnode' = bnode)
  /\ \A c \in DetachCalls :
       ((DetachLeft(c[1], c[2]) \/ DetachRight(c[1], c[2])) /\ tret' = "NULL")
          => (tree' = tree /\ bnode' = bnode)

C20_NoPartialMutation == [][C20_Step]_vars

\* What a graft of a source tree that holds a node does, by the claim: into
\* an empty slot it returns DS_OK, the slot holds the source's root, the
\* count of the destination has grown by the count of the source (in size_t
\* arithmetic) and the source has count 0 and no root; on an occupied slot it
\* returns DS_ERR_EXIST and both trees are as they were. No block is freed.
GraftOutcome(slot, newNodes) ==
  /\ balloc' = balloc
  /\ IF slot = NULL
       THEN /\ tret' = "DS_OK"
            /\ bnode' = newNodes
            /\ tree' = [root |-> tree.root, size |-> (tree.size + sub.size) % SizeMod]
            /\ sub' = [root |-> NULL, size |-> 0]
       ELSE /\ tret' = "DS_ERR_EXIST"
            /\ bnode' = bnode
            /\ tree' = tree
            /\ sub' = sub

\* C16: ds_btree_attach_tree_left/right with a source tree that has a root
\* and count k links that root into the parent's empty left or right slot,
\* adds k to the count of the destination and leaves the source with count 0
\* and no root; when the slot is occupied it returns DS_ERR_EXIST and changes
\* neither tree.
C16_Step ==
  /\ \A c \in GraftCalls :
       (AttachTreeLeft(c[1], c[2], c[3]) /\ c[1] /\ c[2] # NULL /\ c[3]
          /\ sub.root # NULL) =>
         GraftOutcome(LeftChild(c[2]), [bnode EXCEPT ![c[2]].left = sub.root])
  /\ \A c \in GraftCalls :
       (AttachTreeRight(c[1], c[2], c[3]) /\ c[1] /\ c[2] # NULL /\ c[3]
          /\ sub.root # NULL) =>
         GraftOutcome(RightChild(c[2]), [bnode EXCEPT ![c[2]].right = sub.root])

C16_GraftMovesCount == [][C16_Step]_vars

\* A source of two nodes and count 2 was grafted to the right of the root of
\* a one-node tree: the destination counts 3 and the source is empty.
C16_Witness ==
  /\ trav = "attach_tree_right"
  /\ tret = "DS_OK"
  /\ subWas.root # NULL
  /\ subWas.size = 2
  /\ Cardinality(Unit(Btree, subWas.root)) = 2
  /\ bnode[tree.root].right = subWas.root
  /\ tree.size = 3
  /\ sub = [root |-> NULL, size |-> 0]

\* C17: ds_btree_attach_tree_left/right with a source tree that has no root
\* returns DS_OK and changes neither tree, whatever the parent's slot holds.
C17_Step ==
  \A c \in GraftCalls :
    ((AttachTreeLeft(c[1], c[2], c[3]) \/ AttachTreeRight(c[1], c[2], c[3]))
       /\ c[1] /\ c[2] # NULL /\ c[3] /\ sub.root = NULL) =>
      /\ tret' = "DS_OK"
      /\ tree' = tree
      /\ sub' = sub
      /\ bnode' = bnode
      /\ balloc' = balloc

C17_EmptySourceNoOp == [][C17_Step]_vars

\* An empty source was grafted onto the occupied right slot of the root and
\* the call returned DS_OK.
C17_Witness ==
  /\ trav = "attach_tree_right"
  /\ tret = "DS_OK"
  /\ subWas.root = NULL
  /\ sub.root = NULL
  /\ tree.root # NULL
  /\ bnode[tree.root].right # NULL
  /\ tree.size = 2

\* The part of C20 that is about ds_btree_attach_tree_left/right: a graft
\* that returns a failure status changes neither tree.
GraftFailureStep ==
  \A c \in GraftCalls :
    ((AttachTreeLeft(c[1], c[2], c[3]) \/ AttachTreeRight(c[1], c[2], c[3]))
       /\ tret' # "DS_OK") =>
      (tree' = tree /\ sub' = sub /\ bnode' = bnode /\ balloc' = balloc)

GraftFailureChangesNothing == [][GraftFailureStep]_vars

C30_Step ==
  (RemovesPresent /\ (node[NodeOf(Bst, arg')].left = NULL
                        \/ node[NodeOf(Bst, arg')].right = NULL)) =>
    LET s == Bst
        t == Bst'
        curr == NodeOf(s, arg')
        link == SlotOf(s, curr)
        child == IF s.node[curr].left # NULL THEN s.node[curr].left
                 ELSE s.node[curr].right
    IN /\ Load(t, link) = child
       /\ \A l \in Slots(s) \ {link, LeftOf(curr), RightOf(curr)} :
            Load(t, l) = Load(s, l)
       /\ Reach(t, t.root) = Reach(s, s.root) \ {curr}

\* C30: when ds_bst_remove removes a node that has at most one child, the slot
\* that held the node (the root, or its parent's left or right link) holds the
\* node's only child afterwards, or nothing if it had none, and every other
\* link of the tree is as it was.
C30_UnlinkAtMostOneChild == [][C30_Step]_vars

\* C30 witness: a node with a right child only, which was not the root, was
\* removed from a tree of four.
C30_Witness ==
  /\ op = "remove" /\ ret = "DS_OK" /\ rmcase = "right" /\ size = 3
  /\ root # NULL /\ KeyOf(node[root].data) # KeyOf(arg)
  /\ \A n \in Reach(Bst, root) : node[n].left # NULL => n = root

\* The nodes of the first tree, of the second tree and of the unit the caller
\* holds.
TreeUnit == Unit(Btree, tree.root)
SubUnit == Unit(SubBtree, sub.root)
HeldUnit == Unit(Btree, held)

\* C21: when set_root and attach_node are given leaves, detach is applied to
\* leaf children, whole trees are moved with attach_tree and every parent is
\* a node of the tree it is passed with, the count of each tree is the number
\* of nodes reachable from its root after every call, ds_btree_clear included.
C21_SizeIsReachable ==
  /\ tree.size = Cardinality(TreeUnit)
  /\ sub.size = Cardinality(SubUnit)
  /\ ds_btree_size(TRUE, Btree) = Cardinality(TreeUnit)

\* C21 witness: a leaf was detached from a tree of four nodes while the second
\* tree is empty; three nodes and a count of 3 are left.
C21_Witness ==
  /\ tret = "node"
  /\ held # NULL
  /\ sub = [root |-> NULL, size |-> 0]
  /\ tree.size = 3
  /\ Cardinality(TreeUnit) = 3

\* C22: as long as the caller passes nodes it holds (fresh from
\* ds_btree_node_create or returned by a detach), no node is reachable from
\* the roots of both trees; after an attach_tree no node of the grafted
\* subtree is reachable from the source, and after a detach no node of the
\* detached unit is reachable from a tree.
C22_NoSharedNode ==
  /\ TreeUnit \cap SubUnit = {}
  /\ HeldUnit \cap (TreeUnit \cup SubUnit) = {}
  /\ (trav \in {"attach_tree_left", "attach_tree_right"} /\ tret = "DS_OK") =>
       /\ Unit(Btree, subWas.root) \cap SubUnit = {}
       /\ Unit(Btree, subWas.root) \subseteq TreeUnit

\* C22 witness: a unit of two nodes was detached from one of the trees, and
\* each tree holds one node.
C22_Witness ==
  /\ tret = "node"
  /\ Cardinality(HeldUnit) = 2
  /\ Cardinality(TreeUnit) = 1
  /\ Cardinality(SubUnit) = 1

\* The events of one kind in the event sequence sq.
Events(sq, ev) == {i \in 1..Len(sq) : sq[i].ev = ev}

C23_Step ==
  (trav' \in {"clear", "destroy"} /\ tree.root # NULL
     /\ tree.size < Cardinality(TreeNodes)) =>
    /\ \A n \in TreeNodes :
         /\ Count(events', "free", n) = 1
         /\ Count(events', "dtor", bnode[n].data) = (IF tfn' THEN 1 ELSE 0)
    /\ Cardinality(Events(events', "free")) = Cardinality(TreeNodes)
    /\ balloc' = balloc \ TreeNodes
    /\ trav' = "destroy" =>
         /\ \A n \in TreeNodes : Count(events', "push", n) = 1
         /\ \A n, m \in TreeNodes :
              Index(events', "push", n) < Index(events', "push", m)
                => Index(events', "free", m) < Index(events', "free", n)

\* C23: ds_btree_clear and ds_btree_destroy free every node reachable from
\* the root exactly once (and call the destructor once on every payload) also
\* when the count of the tree is less than the number of its nodes: the count
\* is the first capacity of the helper stacks only, and a stack that grows
\* past it keeps its elements in their order, so that ds_btree_destroy frees
\* the nodes in the reverse of the order in which it pushed them.
C23_UndercountedTreeReleased == [][C23_Step]_vars

\* C23 witness: a tree of three nodes and count 1 was destroyed with a
\* destructor: three pushes on a stack_store of capacity 1, and three frees.
C23_Witness ==
  /\ trav = "destroy"
  /\ tfn
  /\ tree.size = 1
  /\ Cardinality(Events(events, "push")) = 3
  /\ Cardinality(Events(events, "free")) = 3
  /\ Cardinality(Events(events, "dtor")) = 3

\* The elements a ring buffer holds, from its head on.
DequeSeq(q) ==
  [i \in 1..q[1].size |-> q[1].items[(q[1].head + i - 1) % q[1].capacity]]

\* The first and the last element of a sequence (NULL: it has none).
First(sq) == IF sq = <<>> THEN NULL ELSE sq[1]
Last(sq) == IF sq = <<>> THEN NULL ELSE sq[Len(sq)]

C24_Step ==
  /\ cop' = "stack_pop" =>
       /\ cret' = Last(cref)
       /\ DequeSeq(deque') = Front(cref)
       /\ cref = <<>> => deque' = deque
  /\ cop' = "stack_top" =>
       /\ cret' = Last(cref)
       /\ deque' = deque
  /\ DequeSeq(deque') = cref'
  /\ ds_stack_size(deque') = Len(cref')

\* C24: ds_stack_pop returns and removes the element pushed last among those
\* still on the stack and ds_stack_top returns it and removes nothing; on an
\* empty stack both return NULL and change nothing; the same holds after the
\* ring buffer has grown past its first capacity.
C24_StackIsLifo == [][C24_Step]_vars

\* C24 witness: 1, 1 and 2 were pushed on a stack of capacity 2, which grew
\* to 4, and the pop returned 2.
C24_Witness ==
  /\ cop = "stack_pop"
  /\ cret = 2
  /\ cref = <<1, 1>>
  /\ deque[1].capacity = 4

C25_Step ==
  /\ cop' = "queue_pop" =>
       /\ cret' = First(cref)
       /\ DequeSeq(deque') = Rest(cref)
       /\ cref = <<>> => deque' = deque
  /\ cop' = "queue_front" =>
       /\ cret' = First(cref)
       /\ deque' = deque
  /\ DequeSeq(deque') = cref'
  /\ ds_queue_size(deque') = Len(cref')

\* C25: ds_queue_pop returns and removes the element pushed first among
\* those still in the queue and ds_queue_front returns it and removes
\* nothing; on an empty queue both return NULL and change nothing; the same
\* holds when head and tail have wrapped around and when the ring buffer has
\* grown.
C25_QueueIsFifo == [][C25_Step]_vars

\* C25 witness: the queue has grown to capacity 4, its tail has wrapped
\* around the end of the array, and the pop returned the oldest element, 1.
C25_Witness ==
  /\ cop = "queue_pop"
  /\ cret = 1
  /\ cref = <<2, 2>>
  /\ deque[1].capacity = 4
  /\ deque[1].tail < deque[1].head

C26_Step ==
  /\ cop' = "pop_back" => cret' = Last(cref) /\ DequeSeq(deque') = Front(cref)
  /\ cop' = "pop_front" => cret' = First(cref) /\ DequeSeq(deque') = Rest(cref)
  /\ cop' = "back" => cret' = Last(cref) /\ deque' = deque
  /\ cop' = "front" => cret' = First(cref) /\ deque' = deque
  /\ (cop' \in {"pop_back", "pop_front"} /\ cref = <<>>) => deque' = deque
  /\ DequeSeq(deque') = cref'
  /\ ds_deque_size(deque') = Len(cref')

\* C26: under every interleaving of push_back, push_front, pop_back,
\* pop_front, front and back the deque returns what a double-ended sequence
\* returns under the same calls and has its size, also when head and tail
\* wrap around the end of the array and when a push on a full array makes it
\* grow; a pop or a peek on an empty deque returns NULL and changes nothing.
C26_DequeMatchesSequence == [][C26_Step]_vars

\* C26 witness: a push_front on a deque that has grown to capacity 4 put the
\* head at the end of the array.
C26_Witness ==
  /\ cop = "push_front"
  /\ cst = "DS_OK"
  /\ deque[1].capacity = 4
  /\ deque[1].head = 3
  /\ cref = <<2, 1, 1>>

\* The elements of the vector, in index order.
VecSeq(v) == IF v = NullRef THEN <<>> ELSE [i \in 1..v[1].size |-> v[1].items[i - 1]]

\* The failure kind of a vector call: a NULL vector, then (the vector valid) an
\* index out of range, then (the index in range) a NULL element; "DS_OK" where
\* none of the three applies.
FailureKind(t, outOfRange, element) ==
  IF ~t THEN "DS_ERR_NULL"
  ELSE IF outOfRange THEN "DS_ERR_BOUNDS"
  ELSE IF element = NULL THEN "DS_ERR_ARG"
  ELSE "DS_OK"

\* The call reported the failure kind and left the contents and the size of
\* the vector alone.
Reported(kind) ==
  kind # "DS_OK" => cst' = kind /\ VecSeq(vec') = VecSeq(vec)

\* C27: a vector call on a NULL vector returns DS_ERR_NULL (reserve,
\* push_back, insert, set, remove); on a valid vector with an index out of
\* range it returns DS_ERR_BOUNDS; on a valid vector with an index in range
\* and a NULL element it returns DS_ERR_ARG (push_back, insert, set); and a
\* call that fails so leaves the contents and the size of the vector alone.
C27_Step ==
  /\ \A c \in ReserveCalls :
       VectorReserve(c[1], c[2]) => Reported(FailureKind(c[1], FALSE, 1))
  /\ \A c \in PushBackCalls :
       VectorPushBack(c[1], c[2]) => Reported(FailureKind(c[1], FALSE, c[2]))
  /\ \A c \in VecInsertCalls :
       VectorInsert(c[1], c[2], c[3]) =>
         Reported(FailureKind(c[1], c[2] > ds_vector_size(vec), c[3]))
  /\ \A c \in SetCalls :
       VectorSet(c[1], c[2], c[3], c[4]) =>
         Reported(FailureKind(c[1], c[2] >= ds_vector_size(vec), c[3]))
  /\ \A c \in VecRemoveCalls :
       VectorRemove(c[1], c[2], c[3]) =>
         Reported(FailureKind(c[1], c[2] >= ds_vector_size(vec), 1))
C27_DistinctFailureKinds == [][C27_Step]_vars

\* What the vector calls do on a failure: each of the three kinds is reported
\* as DS_ERR_BOUNDS, and the contents and the size of the vector stay.
VectorFailureStep ==
  LET kinds ==
        {FailureKind(c[1], FALSE, 1) : c \in {c \in ReserveCalls : VectorReserve(c[1], c[2])}}
        \cup {FailureKind(c[1], FALSE, c[2]) :
                c \in {c \in PushBackCalls : VectorPushBack(c[1], c[2])}}
        \cup {FailureKind(c[1], c[2] > ds_vector_size(vec), c[3]) :
                c \in {c \in VecInsertCalls : VectorInsert(c[1], c[2], c[3])}}
        \cup {FailureKind(c[1], c[2] >= ds_vector_size(vec), c[3]) :
                c \in {c \in SetCalls : VectorSet(c[1], c[2], c[3], c[4])}}
        \cup {FailureKind(c[1], c[2] >= ds_vector_size(vec), 1) :
                c \in {c \in VecRemoveCalls : VectorRemove(c[1], c[2], c[3])}}
  IN \A kind \in kinds \ {"DS_OK"} :
       cst' = "DS_ERR_BOUNDS" /\ VecSeq(vec') = VecSeq(vec)
VectorFailureChangesNothing == [][VectorFailureStep]_vars

\* The elements of the heap, in index order.
HeapSeq(h) == IF h = NullRef THEN <<>> ELSE [i \in 1..h[1].size |-> h[1].items[i - 1]]

\* a is strictly better than b under the comparator of the heap.
Better(a, b) ==
  IF heap[1].compare = "int_compare_min" THEN a < b ELSE a > b

\* How often v occurs in sq.
Occurrences(sq, v) == Cardinality({i \in DOMAIN sq : sq[i] = v})
SameMultiset(s1, s2) ==
  \A v \in HeapVals \cup {NULL} : Occurrences(s1, v) = Occurrences(s2, v)

\* The elements ds_heap_pop returns when it is called until the heap is empty.
RECURSIVE PopAll(_)
PopAll(h) ==
  IF ds_heap_is_empty(h) THEN <<>>
  ELSE <<ds_heap_pop(h).ret>> \o PopAll(ds_heap_pop(h).h)

C28_State ==
  LET s == HeapSeq(heap)
      popped == PopAll(heap)
  IN /\ \A i \in 1..(Len(s) - 1) : ~Better(s[i + 1], s[((i - 1) \div 2) + 1])
     /\ s # <<>> => \A i \in DOMAIN s : ~Better(s[i], ds_heap_top(heap))
     /\ SameMultiset(s, cref)
     /\ SameMultiset(popped, cref)
     /\ Len(popped) = Len(cref)
     /\ \A i, j \in DOMAIN popped : i < j => ~Better(popped[j], popped[i])

C28_Step ==
  /\ HeapPop(TRUE) /\ HeapSeq(heap) # <<>> =>
       /\ \A i \in DOMAIN HeapSeq(heap) : ~Better(HeapSeq(heap)[i], cret')
       /\ Occurrences(HeapSeq(heap), cret') = Occurrences(HeapSeq(heap'), cret') + 1
       /\ \A v \in HeapVals \ {cret'} :
            Occurrences(HeapSeq(heap), v) = Occurrences(HeapSeq(heap'), v)
  /\ HeapTop(TRUE) /\ HeapSeq(heap) # <<>> =>
       /\ \A i \in DOMAIN HeapSeq(heap) : ~Better(HeapSeq(heap)[i], cret')
       /\ Occurrences(HeapSeq(heap), cret') > 0

\* C28: after any sequence of ds_heap_push and ds_heap_pop no stored element
\* is strictly better than its parent at index (i-1)/2; ds_heap_top and
\* ds_heap_pop return a stored element that no stored element is strictly
\* better than; and popping until the heap is empty gives the multiset of the
\* elements pushed and not yet popped, none strictly better than one popped
\* before it.
C28_HeapOrder == []C28_State /\ [][C28_Step]_vars

\* C28 witness: a pop from a max-heap that has grown and still holds four
\* elements, two of them equal and two of them different.
C28_Witness ==
  /\ cop = "heap_pop"
  /\ cret # NULL
  /\ heap[1].compare = "int_compare_max"
  /\ heap[1].capacity > HeapHint
  /\ Len(cref) = 4
  /\ \E i, j \in DOMAIN cref : i < j /\ cref[i] = cref[j]
  /\ \E i, j \in DOMAIN cref : cref[i] # cref[j]

\* The elements ds_list_iter_get gives on the way from the iterator p on by
\* ds_list_iter_next, and by ds_list_iter_prev; a walk of more than
\* MaxListLen + 1 steps is cut (it is in a cycle).
RECURSIVE ForwardFrom(_, _, _)
ForwardFrom(l, p, k) ==
  IF p = NULL \/ k > MaxListLen THEN <<>>
  ELSE <<ds_list_iter_get(l, p)>> \o ForwardFrom(l, ds_list_iter_next(l, p), k + 1)

RECURSIVE BackwardFrom(_, _, _)
BackwardFrom(l, p, k) ==
  IF p = NULL \/ k > MaxListLen THEN <<>>
  ELSE <<ds_list_iter_get(l, p)>> \o BackwardFrom(l, ds_list_iter_prev(l, p), k + 1)

Forward(l) == ForwardFrom(l, ds_list_iter_begin(TRUE, l), 0)
Backward(l) == BackwardFrom(l, ds_list_iter_tail(TRUE, l), 0)
Reversed(sq) == [i \in 1..Len(sq) |-> sq[Len(sq) + 1 - i]]

\* The iterator k calls of ds_list_iter_next after ds_list_iter_begin.
RECURSIVE IterAfter(_, _, _)
IterAfter(l, p, k) ==
  IF k = 0 \/ p = NULL THEN p ELSE IterAfter(l, ds_list_iter_next(l, p), k - 1)
IterAt(l, k) == IterAfter(l, ds_list_iter_begin(TRUE, l), k)

C29_State ==
  /\ Forward(list) = cref
  /\ Backward(list) = Reversed(cref)
  /\ ds_list_size(TRUE, list) = Len(cref)

C29_Step ==
  \A c \in ListRemoveCalls :
    ListRemove(c[1], c[2], c[3]) /\ c[1] /\ c[2] # NULL =>
      /\ liter' = IterAt(list, IterIndex(c[2]) + 1)
      /\ liter' = IterAt(list', IterIndex(c[2]))
      /\ (liter' = NULL) <=> (IterIndex(c[2]) = Len(cref) - 1)
      /\ liter' # NULL => ds_list_iter_get(list', liter') = cref[IterIndex(c[2]) + 2]

\* C29: after any sequence of push_front, push_back, insert before an
\* iterator, remove at an iterator, pop_front and pop_back, the walk from
\* ds_list_iter_begin by ds_list_iter_next gives the sequence of the abstract
\* list under the same operations, the walk from ds_list_iter_tail by
\* ds_list_iter_prev gives its reverse, ds_list_size is its length, and
\* ds_list_remove returns the iterator of the element that followed the one
\* removed, NULL when the last element was removed.
C29_ListMatchesSequence == []C29_State /\ [][C29_Step]_vars

\* C29 witness: ds_list_remove has taken an element out of the middle of a
\* list of four and returned the iterator of the third of the three that are
\* left, whose values are not all the same.
C29_Witness ==
  /\ cop = "list_remove"
  /\ Len(cref) = 3
  /\ liter # NULL
  /\ liter = list.tail
  /\ list.node[liter].prev # list.head
  /\ \E i, j \in DOMAIN cref : cref[i] # cref[j]

\* The links that hold the node n: the root and the left and right fields of
\* the nodes reachable from the root.
LinksTo(n) ==
  {<<p, side>> \in Reach(Bst, root) \X {"left", "right"} :
     (IF side = "left" THEN node[p].left ELSE node[p].right) = n}
  \cup (IF root = n THEN {<<NULL, "root">>} ELSE {})

\* C36: after any sequence of ds_bst_insert and ds_bst_remove the nodes
\* reachable from the root form a binary tree: every one is held by exactly
\* one link, none is its own child, none is reached again from its own
\* children, and every one is live.
C36_ReachableIsTree ==
  \A n \in Reach(Bst, root) :
    /\ n \in alloc
    /\ Cardinality(LinksTo(n)) = 1
    /\ node[n].left # n /\ node[n].right # n
    /\ n \notin Closure(Bst, Children(Bst, {n}))

\* C36 witness: a two-children removal whose predecessor lay deeper than the
\* left child has left a tree of at least three nodes; one whose predecessor
\* was the left child is reached as well (C36_WitnessDirect).
C36_Witness ==
  /\ op = "remove" /\ ret = "DS_OK"
  /\ rmcase = "two_deep"
  /\ Cardinality(Reach(Bst, root)) >= 3
C36_WitnessDirect ==
  /\ op = "remove" /\ ret = "DS_OK"
  /\ rmcase \in {"two_direct", "two_direct_l"}
  /\ Cardinality(Reach(Bst, root)) >= 3

C38_State ==
  LET d == deque[1] IN
  /\ 0 <= d.size /\ d.size <= d.capacity
  /\ d.capacity >= 1
  /\ d.head < d.capacity
  /\ d.tail < d.capacity
  /\ d.tail = (d.head + d.size) % d.capacity

C38_Step ==
  /\ deque'[1].capacity >= deque[1].capacity
  /\ deque'[1].capacity # deque[1].capacity =>
       /\ cop' \in {"push_back", "push_front"} /\ cst' = "DS_OK"
       /\ deque[1].size = deque[1].capacity
       /\ deque'[1].capacity = 2 * deque[1].capacity
       /\ \A i \in 1..deque[1].size : deque'[1].items[i - 1] = DequeSeq(deque)[i]
       /\ DequeSeq(deque') = IF cop' = "push_back"
                             THEN Append(DequeSeq(deque), Last(DequeSeq(deque')))
                             ELSE <<First(DequeSeq(deque'))>> \o DequeSeq(deque)

\* C38: in every reachable state of the deque 0 <= size <= capacity,
\* capacity >= 1, head < capacity, tail < capacity and
\* tail = (head + size) mod capacity; the capacity changes only in a push on a
\* full deque, where it doubles and the elements lie from index 0 on in their
\* logical order, and it never shrinks.
C38_RingBuffer == []C38_State /\ [][C38_Step]_vars

\* C38 witness: a push_back on a full deque has doubled the capacity and left
\* the head at index 0, with two different elements at the front; and a full
\* deque of the doubled capacity whose head and tail meet away from index 0
\* (C38_WitnessFull).
C38_Witness ==
  /\ cop = "push_back" /\ cst = "DS_OK"
  /\ deque[1].capacity = 2 * DequeHint
  /\ deque[1].size = DequeHint + 1
  /\ deque[1].head = 0
  /\ cref[1] # cref[2]
C38_WitnessFull ==
  /\ deque[1].size = deque[1].capacity
  /\ deque[1].capacity = 2 * DequeHint
  /\ deque[1].head = deque[1].tail
  /\ deque[1].head # 0

\* C37: the count of the binary tree never wraps: no call decrements a count
\* of 0, so the count, from which clear and destroy size their helper stacks,
\* never goes from 0 to SIZE_MAX.
C37_Step == ~(tree.size = 0 /\ tree'.size = SIZE_MAX)
C37_CountNeverWraps == [][C37_Step]_vars

\* ------------------------------------------------------------------ C31
\* The frames of a running iterative postorder, bottom to top, and what a
\* frame of the stack holds.
PostRun ==
  run # NullRef /\ run[1].fn = "postorder_iterative" /\ run[1].st # NullRef
FrameSeq(st) == DequeSeq(st.stack)
FrameOn(st, i) == st.frames[FrameSeq(st)[i]]

\* The visitor has received the payload of node n; the payloads of the nodes
\* of this caller differ.
SeenIn(vis, n) == \E i \in 1..Len(vis) : vis[i] = bnode[n].data
AllSeenIn(vis, n) == \A m \in Unit(Btree, n) : SeenIn(vis, m)

\* The frames between two passes: every live frame is on the stack once, no
\* two frames hold the same node and no frame holds a visited node; the
\* stack is the path from the root to the node of the top frame, the frame
\* under the frame of a left child is in state LEFT_DONE and the frame under
\* the frame of a right child in state DONE; the left subtree of a frame in
\* state DONE is visited, and so is what the top frame has behind it.
PostFramesOk(st) ==
  LET k == Len(FrameSeq(st)) IN
  /\ k = Cardinality(st.fralloc)
  /\ {FrameSeq(st)[i] : i \in 1..k} = st.fralloc
  /\ \A i \in 1..k :
       /\ FrameOn(st, i).node \in Unit(Btree, tree.root)
       /\ FrameOn(st, i).state \in
            {"BTREE_POST_ENTER", "BTREE_POST_LEFT_DONE", "BTREE_POST_DONE"}
       /\ ~SeenIn(st.visited, FrameOn(st, i).node)
       /\ \A j \in 1..k : i # j => FrameOn(st, i).node # FrameOn(st, j).node
       /\ FrameOn(st, i).state = "BTREE_POST_DONE"
            => AllSeenIn(st.visited, bnode[FrameOn(st, i).node].left)
  /\ k > 0 => FrameOn(st, 1).node = tree.root
  /\ \A i \in 1..(k - 1) :
       \/ /\ FrameOn(st, i).state = "BTREE_POST_LEFT_DONE"
          /\ FrameOn(st, i + 1).node = bnode[FrameOn(st, i).node].left
       \/ /\ FrameOn(st, i).state = "BTREE_POST_DONE"
          /\ FrameOn(st, i + 1).node = bnode[FrameOn(st, i).node].right
  /\ k > 0 /\ FrameOn(st, k).state = "BTREE_POST_LEFT_DONE"
       => AllSeenIn(st.visited, bnode[FrameOn(st, k).node].left)
  /\ k > 0 /\ FrameOn(st, k).state = "BTREE_POST_DONE"
       => AllSeenIn(st.visited, bnode[FrameOn(st, k).node].right)
  /\ \A i, j \in 1..Len(st.visited) : i # j => st.visited[i] # st.visited[j]

C31_State ==
  PostRun =>
    /\ PostFramesOk(run[1].st)
    /\ run[1].phase = "done"
         => /\ FrameSeq(run[1].st) = <<>>
            /\ \A n \in Unit(Btree, tree.root) : SeenIn(run[1].st.visited, n)

\* What a pass from st to st1 has pushed for the child c of the top frame:
\* nothing without a child, else one new frame in state ENTER on top.
PushedFor(st, st1, c) ==
  IF c = NULL
  THEN FrameSeq(st1) = FrameSeq(st) /\ st1.fralloc = st.fralloc
  ELSE \E g \in Frames \ st.fralloc :
         /\ st1.fralloc = st.fralloc \cup {g}
         /\ FrameSeq(st1) = Append(FrameSeq(st), g)
         /\ st1.frames[g] = [node |-> c, state |-> "BTREE_POST_ENTER"]

\* One pass from st to st1 with the frame f on top, fr being what it held.
PostPassOk(st, st1, f, fr) ==
  /\ \A g \in st.fralloc \ {f} : g \in st1.fralloc /\ st1.frames[g] = st.frames[g]
  /\ fr.state = "BTREE_POST_ENTER"
       => /\ st1.frames[f] = [node |-> fr.node, state |-> "BTREE_POST_LEFT_DONE"]
          /\ st1.visited = st.visited
          /\ PushedFor(st, st1, bnode[fr.node].left)
  /\ fr.state = "BTREE_POST_LEFT_DONE"
       => /\ st1.frames[f] = [node |-> fr.node, state |-> "BTREE_POST_DONE"]
          /\ st1.visited = st.visited
          /\ PushedFor(st, st1, bnode[fr.node].right)
  /\ fr.state = "BTREE_POST_DONE"
       => /\ st1.visited = Append(st.visited, bnode[fr.node].data)
          /\ \A m \in Unit(Btree, fr.node) \ {fr.node} : SeenIn(st.visited, m)
          /\ FrameSeq(st1) = SubSeq(FrameSeq(st), 1, Len(FrameSeq(st)) - 1)
          /\ st1.fralloc = st.fralloc \ {f}

C31_Step ==
  (PostRun /\ run' # NullRef /\ run'[1].passes = run[1].passes + 1)
    => PostPassOk(run[1].st, run'[1].st, Last(FrameSeq(run[1].st)),
                  run[1].st.frames[Last(FrameSeq(run[1].st))])

\* C31: in the iterative postorder every node gets one stack frame, whose
\* state moves only from ENTER to LEFT_DONE to DONE; the frame of a left
\* child is pushed only in the pass that leaves ENTER and the frame of a right
\* child only in the pass that leaves LEFT_DONE; a node is visited only when
\* its frame is on top in state DONE, after its descendants were visited and
\* their frames popped, and its frame is popped in the pass that visits it.
C31_PostorderFrames == []C31_State /\ [][C31_Step]_vars

\* C31 witness: a pass has just visited a node with two children that is not
\* the root, so that frames remain on the stack.
C31_Witness ==
  /\ PostRun /\ run[1].phase = "loop"
  /\ run[1].st.visited # <<>>
  /\ FrameSeq(run[1].st) # <<>>
  /\ \E n \in Unit(Btree, tree.root) :
       /\ bnode[n].data = Last(run[1].st.visited)
       /\ bnode[n].left # NULL /\ bnode[n].right # NULL

\* ------------------------------------------------------------------ C32
\* The nodes under n in post-order: left subtree, right subtree, node.
RECURSIVE PostNodes(_)
PostNodes(n) ==
  IF n = NULL THEN <<>>
  ELSE PostNodes(bnode[n].left) \o PostNodes(bnode[n].right) \o <<n>>

\* The nodes the events ev free, in the order of the calls of free.
FreedNodes(ev) ==
  LET fr == SelectSeq(ev, LAMBDA e : e.ev = "free")
  IN [i \in 1..Len(fr) |-> fr[i].x]

IsPrefix(a, b) == Len(a) <= Len(b) /\ SubSeq(b, 1, Len(a)) = a

\* A ds_btree_destroy, or a ds_btree_clear with memory for its stack, that
\* has created its helpers and not yet returned. Until it returns, the tree
\* of the caller is as it was at the call.
ReleaseRun ==
  /\ Running
  /\ run[1].fn \in {"clear", "destroy"}
  /\ run[1].fn = "clear" => ~run[1].st.oom

\* C32: ds_btree_destroy frees the nodes in post-order (left subtree, right
\* subtree, node), the order ds_btree_clear frees them in: what either has
\* freed so far is the beginning of the post-order sequence of the tree, so
\* that a node is freed after all its descendants, and once the last loop is
\* over it is the whole sequence.
C32_DestroyPostOrder ==
  ReleaseRun =>
    /\ IsPrefix(FreedNodes(run[1].st.events), PostNodes(tree.root))
    /\ (~run_continues(run[1]) /\ (run[1].fn = "destroy" => run[1].phase = "release"))
         => FreedNodes(run[1].st.events) = PostNodes(tree.root)

\* C32 witness: a destroy has freed the left and the right child of a root
\* with two children and not yet the root; and a clear has done the same
\* (C32_WitnessClear).
C32_Witness ==
  /\ ReleaseRun /\ run[1].fn = "destroy" /\ run[1].phase = "release"
  /\ bnode[tree.root].left # NULL /\ bnode[tree.root].right # NULL
  /\ FreedNodes(run[1].st.events) = <<bnode[tree.root].left, bnode[tree.root].right>>
C32_WitnessClear ==
  /\ ReleaseRun /\ run[1].fn = "clear"
  /\ bnode[tree.root].left # NULL /\ bnode[tree.root].right # NULL
  /\ FreedNodes(run[1].st.events) = <<bnode[tree.root].left, bnode[tree.root].right>>

\* ------------------------------------------------------------------ C35
\* C35: while ds_btree_clear and ds_btree_destroy run with memory for their
\* helper stacks, every node whose field a pass reads is live, so that no
\* field of a freed node is read; last_visited points to a freed node and is
\* not among the nodes read: it is only compared with peek->right.
C35_NoReadAfterFree ==
  (ReleaseRun /\ run_continues(run[1])) =>
    /\ pass_reads(run[1]) \subseteq pass_heap(run[1])
    /\ (run[1].fn = "clear" /\ run[1].st.last_visited # NULL)
         => /\ run[1].st.last_visited \notin run[1].st.s.alloc
            /\ run[1].st.last_visited \notin pass_reads(run[1])

\* C35 witness: a clear is about to compare the right child of the node on
\* top of its stack with last_visited, which points to that child, freed in
\* the pass before; and a destroy with a destructor is about to read the
\* payload of a node whose children are freed (C35_WitnessDestroy).
C35_Witness ==
  /\ ReleaseRun /\ run[1].fn = "clear" /\ run_continues(run[1])
  /\ run[1].st.curr = NULL
  /\ run[1].st.last_visited # NULL
  /\ run[1].st.last_visited \notin run[1].st.s.alloc
  /\ run[1].st.s.node[ds_stack_top(run[1].st.stack)].right = run[1].st.last_visited
C35_WitnessDestroy ==
  /\ ReleaseRun /\ run[1].fn = "destroy" /\ run[1].phase = "release"
  /\ run[1].free_func /\ run_continues(run[1])
  /\ bnode[ds_stack_top(run[1].st.stack_store)].left # NULL
  /\ bnode[ds_stack_top(run[1].st.stack_store)].left \notin run[1].st.s.alloc

\* ------------------------------------------------------------------ C34
\* A ds_btree_clear returns in this step: at once, without its stack, or
\* after its loop.
ClearReturns ==
  /\ run' # run
  /\ run' # NullRef
  /\ run'[1].fn = "clear"
  /\ run'[1].phase = "done"

\* C34: ds_btree_clear is all-or-nothing, also when an allocation for its
\* stack fails, at the creation or at a growth during a push: when it
\* returns, either the tree, its nodes and its count are as they were, or
\* every node of the tree is freed, every payload was handed to the
\* destructor once, there is no root and the count is 0.
C34_Step ==
  ClearReturns =>
    \/ UNCHANGED <<tree, bnode, balloc>>
    \/ /\ tree' = [root |-> NULL, size |-> 0]
       /\ balloc' = balloc \ TreeNodes
       /\ \A n \in TreeNodes : Count(events', "free", n) = 1
       /\ tfn' => \A n \in TreeNodes : Count(events', "dtor", bnode[n].data) = 1
C34_ClearAllOrNothing == [][C34_Step]_vars

\* ------------------------------------------------------------------ C33
\* The helper stacks and the queue of the call r are empty.
helpers_empty(r) ==
  IF r.fn = "levelorder" THEN ds_queue_is_empty(r.st.queue)
  ELSE IF r.fn = "destroy"
  THEN IF r.phase = "loop" THEN ds_stack_is_empty(r.st.stack_traverse)
       ELSE ds_stack_is_empty(r.st.stack_store)
  ELSE ds_stack_is_empty(r.st.stack)

\* Where a loop is over (its condition is false, or the call has returned
\* after at least one pass), nothing is left on its helper.
C33_State ==
  (run # NullRef /\ run[1].st # NullRef /\ ~run_continues(run[1]))
    => helpers_empty(run[1])

\* A call that is about to make a pass of its loop: the pass leaves its
\* locals different from what they were (a pass that leaves them as they were
\* is followed by the same pass, for ever), and it is not yet the pass number
\* MaxPasses.
C33_Progress ==
  (Running /\ run_continues(run[1])) =>
    /\ run_pass(run[1]) # run[1].st
    /\ run[1].passes < MaxPasses

\* C33: the loops of ds_btree_destroy, ds_btree_clear, the three iterative
\* traversals and the level-order traversal terminate on every finite tree:
\* every pass gets on and every loop is over within 4 passes per node; and
\* where a loop is over, its helper stack or queue is empty.
C33_LoopsTerminate == C33_State /\ C33_Progress

====
